---- MODULE Spec2Model ----
(***************************************************************************)
(* Command routing of the sharded query router                             *)
(* (src/mongo/s/commands/commands_public.cpp).                             *)
(*                                                                         *)
(* One behaviour is one client command: the catalog, the shard registry    *)
(* and the command are drawn in Init, the command's run method is followed *)
(* from one blocking shard call to the next, and every shard call answers  *)
(* with one of the outcomes the transport can produce.                     *)
(***************************************************************************)
EXTENDS Integers, Sequences, FiniteSets, TLC

\* ------------------------------------------------------------------ bounds
NumShards == 3
MaxParts == 3

Shards == 1..NumShards          \* ShardId; std::set<ShardId> iterates ascending
Parts == 0..MaxParts            \* GridFS part numbers n

\* ------------------------------------------------------------- vocabulary
CursorCmds == {"listCollections", "listIndexes"}
PlainPassthroughCmds == {"create", "eval"}
NotAllowedCmds == {"convertToCapped", "group", "splitVector"}
AllShardsCmds == {"dropIndexes", "createIndexes", "reIndex", "collMod"}
LoopCmds == {"collStats", "dataSize", "distinct"}
QueryCmds == {"dataSize", "distinct", "geoNear"}
SkipCmds == LoopCmds \cup {"geoNear"}
MergeCmds == SkipCmds \cup {"validate", "filemd5"}
RejectCmds == NotAllowedCmds \cup {"renameCollection", "groupExplain"}
Commands ==
    CursorCmds \cup PlainPassthroughCmds \cup RejectCmds \cup AllShardsCmds
        \cup MergeCmds
\* commands whose run method parses a namespace or a typed argument first
ParsingCmds == Commands \ {"create", "eval", "listCollections"}

\* what one shard call can come back with: a response with ok, a response
\* without ok, a response carrying the stale-config code, no response at all
Outcomes == {"ok", "notok", "stale", "fail"}

\* ------------------------------------------------------------------ state
VARIABLES
    env,        \* the command and what catalog, registry and shards hold
    pc,         \* where the command is
    mode,       \* "none" | "passthrough" | "scatter": how it was dispatched
    attempt,    \* 1, or 2 after a refresh-and-retry
    refreshes,  \* catalog refreshes forced by the retry contract
    shardIds,   \* the target set the command computed (the shardIds local)
    todo,       \* targets still to visit, in dispatch order
    calls,      \* every shard request sent, in order
    inflight,   \* shards whose request has no consumed response yet
    resp,       \* responses that arrived and were not consumed yet
    skipped,    \* targets skipped as shard-not-found
    folded,     \* shards whose result went into the merge accumulator
    seen,       \* outcomes the router consumed, in order
    ok,         \* "pending" | "true" | "false": the command's own result
    err,        \* the error surfaced ("" when none)
    md5,        \* filemd5 chaining state
    acc         \* the merge accumulator: what the merged fields are built from

vars ==
    <<env, acc, pc, mode, attempt, refreshes, shardIds, todo, calls, inflight, resp,
      skipped, folded, seen, ok, err, md5>>

\* --------------------------------------------------------------- helpers
Min(S) == CHOOSE m \in S : \A x \in S : m <= x

RECURSIVE SetToSeq(_)
SetToSeq(S) ==
    IF S = {} THEN <<>> ELSE LET m == Min(S) IN <<m>> \o SetToSeq(S \ {m})

Range(q) == {q[i] : i \in 1..Len(q)}

NoResp == [s \in {} |-> "ok"]

NoOut == [kind |-> "none"]
NoLast == [numChunks |-> 0, md5state |-> <<>>, from |-> 0]
\* no shard result merged yet
NoAcc == [kind |-> "none"]

EmptyMd5 ==
    [n |-> 0, hasLast |-> FALSE, last |-> NoLast, sent |-> <<>>, out |-> NoOut]

\* -------------------------------------------------- external collaborators
isSharded == env.sharded
getPrimaryId == env.primary
\* shardRegistry()->getShard(txn, id).isOK()
getShardOK(s) == s \in env.registered
\* shardRegistry()->getAllShardIds
getAllShardIdsRegistry == env.registered
\* cm->getAllShardIds: the shards that hold the namespace
cmAllShardIds == env.owners
\* cm->getShardIdsForQuery / getShardIdsForRange: every owning shard for the
\* empty query, the owners of the matching ranges otherwise
cmShardIdsForQuery(emptyQuery) ==
    IF emptyQuery THEN env.owners ELSE env.matching
\* getQuery(cmdObj).isEmpty()
getQueryIsEmpty == env.queryEmpty

\* ---------------------------------------------------------- environments
DefaultEnv(c) ==
    [cmd |-> c, input |-> "ok", sharded |-> FALSE, primary |-> 1,
     registered |-> Shards, owners |-> {1}, queryEmpty |-> TRUE,
     matching |-> {1}, toSharded |-> FALSE, toPrimary |-> 1, view |-> FALSE,
     keyShape |-> "files_id_n", numParts |-> 0,
     chunkOwner |-> [i \in Parts |-> 1],
     todbSharded |-> FALSE, fromdbSharded |-> FALSE]

BadInputEnvs == {[DefaultEnv(c) EXCEPT !.input = "bad"] : c \in ParsingCmds}

UnshardedEnvs ==
    {[DefaultEnv(c) EXCEPT !.primary = p, !.toPrimary = p, !.registered = r,
                           !.owners = {p}, !.matching = {p}] :
        c \in Commands, p \in Shards, r \in SUBSET Shards}

\* renameCollection reads two namespaces; distinct may name a view
RenameEnvs ==
    {[DefaultEnv("renameCollection") EXCEPT !.sharded = f, !.toSharded = t,
                                            !.toPrimary = p] :
        f \in BOOLEAN, t \in BOOLEAN, p \in Shards}

SplitVectorEnvs == {[DefaultEnv("splitVector") EXCEPT !.input = "crossDb"]}

ViewEnvs == {[DefaultEnv("distinct") EXCEPT !.view = TRUE]}

ShardedEnvs ==
    {[DefaultEnv(c) EXCEPT !.sharded = TRUE, !.registered = r, !.owners = o,
                           !.matching = o] :
        c \in NotAllowedCmds \cup {"groupExplain", "collStats"},
        r \in SUBSET Shards, o \in (SUBSET Shards) \ {{}}}

\* dataSize, distinct and geoNear target by their predicate: unbounded, or
\* bounded and matching the ranges of some of the owning shards
ShardedQueryEnvs ==
    {[DefaultEnv(c) EXCEPT !.sharded = TRUE, !.registered = r, !.owners = o,
                           !.queryEmpty = (m = o), !.matching = m] :
        c \in QueryCmds, r \in SUBSET Shards, o \in (SUBSET Shards) \ {{}},
        m \in (SUBSET Shards) \ {{}}}

\* validate always targets with the empty query; the run-on-all-shards
\* commands read the registry
GatherEnvs ==
    {[DefaultEnv(c) EXCEPT !.sharded = TRUE, !.registered = r, !.owners = o,
                           !.matching = o] :
        c \in AllShardsCmds \cup {"validate"},
        r \in SUBSET Shards, o \in (SUBSET Shards) \ {{}}}

\* typed arguments read only on the sharded path
ShardedBadArgEnvs ==
    {[DefaultEnv("dataSize") EXCEPT !.sharded = TRUE, !.input = i,
                                    !.owners = o, !.matching = o] :
        i \in {"badKey", "badMin", "badMax"}, o \in {{1}, {2, 3}}}
    \cup
    {[DefaultEnv("distinct") EXCEPT !.sharded = TRUE, !.input = "badCollation"],
     [DefaultEnv("geoNear") EXCEPT !.sharded = TRUE, !.input = "badCollation"]}

\* on the unsharded path the collation is not looked at
UnshardedBadArgEnvs ==
    {[DefaultEnv(c) EXCEPT !.input = "badCollation", !.primary = p] :
        c \in {"distinct", "geoNear"}, p \in Shards}

\* copydb: todb is "bad" when it is not a string or not a database name;
\* fromhost may be given, and fromdb may be of the wrong type. primary is
\* the primary of todb and toPrimary that of fromdb
CopyDbEnvs ==
    {[DefaultEnv("copydb") EXCEPT !.input = i, !.primary = p,
                                  !.todbSharded = s, !.fromdbSharded = f] :
        i \in {"ok", "bad", "fromhost", "fromhostBadFromdb", "badFromdb"},
        p \in Shards, s \in BOOLEAN, f \in BOOLEAN}

\* filemd5: the shard key of the chunks collection, the number of parts of
\* the file and the shard that owns each key (files_id, n); keys past the
\* last part belong to the range of the last one
FileMD5Envs ==
    {[DefaultEnv("filemd5") EXCEPT !.sharded = TRUE, !.keyShape = k,
                                   !.numParts = np, !.chunkOwner = co,
                                   !.owners = {co[i] : i \in Parts}] :
        k \in {"files_id", "files_id_n", "other"}, np \in Parts,
        co \in [Parts -> Shards]}

EnvSet ==
    BadInputEnvs \cup UnshardedEnvs \cup ShardedEnvs \cup RenameEnvs
        \cup SplitVectorEnvs \cup ViewEnvs
        \cup {e \in ShardedQueryEnvs : e.matching \subseteq e.owners}
        \cup GatherEnvs \cup ShardedBadArgEnvs \cup UnshardedBadArgEnvs
        \cup CopyDbEnvs
        \cup {e \in FileMD5Envs :
                /\ \A i \in Parts : i > e.numParts =>
                        e.chunkOwner[i] = e.chunkOwner[e.numParts]
                /\ e.keyShape # "files_id_n" =>
                        e.numParts = 0 /\ e.registered = Shards}

\* ------------------------------------------------------------------- Init
Init ==
    /\ env \in EnvSet
    /\ pc = "start"
    /\ mode = "none"
    /\ attempt = 1
    /\ refreshes = 0
    /\ shardIds = {}
    /\ todo = <<>>
    /\ calls = <<>>
    /\ inflight = {}
    /\ resp = NoResp
    /\ skipped = {}
    /\ folded = <<>>
    /\ seen = <<>>
    /\ ok = "pending"
    /\ err = ""
    /\ md5 = EmptyMd5
    /\ acc = NoAcc

\* --------------------------------------------------------- result helpers
\* the run method returns (true/false) with the error it appended
Return(okv, e) ==
    /\ pc' = "done"
    /\ ok' = okv
    /\ err' = e

\* the run method is left by an exception (uassert, massert, throw)
Throw(e) ==
    /\ pc' = "caught"
    /\ ok' = ok
    /\ err' = e

\* a request goes out to shard s
Send(s) ==
    /\ calls' = Append(calls, s)
    /\ inflight' = inflight \cup {s}

NoDispatch == UNCHANGED <<calls, inflight>>

\* the run method returns false before any dispatch
Fail(e) ==
    /\ Return("false", e)
    /\ NoDispatch
    /\ UNCHANGED <<mode, todo>>

\* the run method throws before any dispatch
Raise(e) ==
    /\ Throw(e)
    /\ NoDispatch
    /\ UNCHANGED <<mode, todo>>

Rest == <<env, acc, shardIds, attempt, refreshes, resp, skipped, folded, seen, md5>>

\* ------------------------------------------------------------ passthrough
\* mutant: the command goes to the first shard of the registry
Passthrough_FirstShard ==
    /\ mode' = "passthrough"
    /\ todo' = todo
    /\ IF getAllShardIdsRegistry # {}
       THEN /\ Send(Min(getAllShardIdsRegistry))
            /\ pc' = "await"
            /\ UNCHANGED <<ok, err>>
       ELSE /\ NoDispatch
            /\ Throw("ShardNotFound")

\* PublicGridCommand::_passthrough up to the blocking runCommand
Passthrough ==
    /\ mode' = "passthrough"
    /\ todo' = todo
    /\ IF getShardOK(getPrimaryId)
       THEN /\ Send(getPrimaryId)
            /\ pc' = "await"
            /\ UNCHANGED <<ok, err>>
       ELSE /\ NoDispatch
            /\ Throw("ShardNotFound")

\* mutant: a stale reply is retried in place, inside _passthrough
PassthroughReturn_RetriesInPlace ==
    /\ pc = "await"
    /\ mode = "passthrough"
    /\ env.cmd \notin CursorCmds \cup {"groupExplain"}
    /\ \E o \in Outcomes :
        /\ seen' = Append(seen, o)
        /\ CASE o = "ok" -> Return("true", "") /\ inflight' = {} /\ calls' = calls
             [] o = "notok" ->
                    Return("false", "shard") /\ inflight' = {} /\ calls' = calls
             [] o = "stale" -> Send(getPrimaryId) /\ UNCHANGED <<pc, ok, err>>
             [] o = "fail" ->
                    Throw("HostUnreachable") /\ inflight' = {} /\ calls' = calls
    /\ UNCHANGED <<env, acc, shardIds, mode, attempt, refreshes, todo, resp,
                   skipped, folded, md5>>

\* PublicGridCommand::_passthrough after runCommand returned: the shard's
\* ok flag is the call's result; a stale-config reply or a dead connection
\* leaves runCommand by an exception
PassthroughReturn ==
    /\ pc = "await"
    /\ mode = "passthrough"
    /\ env.cmd \notin CursorCmds \cup {"groupExplain"}
    /\ \E o \in Outcomes :
        /\ seen' = Append(seen, o)
        /\ inflight' = {}
        /\ CASE o = "ok" -> Return("true", "")
             [] o = "notok" ->
                    IF env.cmd = "distinct" /\ env.view
                    THEN pc' = "view" /\ ok' = ok /\ err' = "ResolvedView"
                    ELSE Return("false", "shard")
             [] o = "stale" -> Throw("StaleConfig")
             [] o = "fail" -> Throw("HostUnreachable")
    /\ UNCHANGED <<env, acc, shardIds, mode, attempt, refreshes, todo, calls, resp, skipped,
                   folded, md5>>

\* cursorCommandPassthrough up to the blocking query
CursorCommandPassthrough ==
    /\ mode' = "passthrough"
    /\ todo' = todo
    /\ IF getShardOK(getPrimaryId)
       THEN /\ Send(getPrimaryId)
            /\ pc' = "await"
            /\ UNCHANGED <<ok, err>>
       ELSE /\ NoDispatch
            /\ Return("false", "ShardNotFound")

\* mutant: the stale-config status is returned like any other error status
CursorCommandPassthroughReturn_NoStaleThrow ==
    /\ pc = "await"
    /\ mode = "passthrough"
    /\ env.cmd \in CursorCmds
    /\ \E o \in Outcomes \cup {"badcursor"} :
        /\ seen' = Append(seen, o)
        /\ inflight' = {}
        /\ CASE o = "fail" -> Return("false", "OperationFailed")
             [] o = "stale" -> Return("false", "shard")
             [] o = "notok" -> Return("false", "shard")
             [] o = "badcursor" -> Return("false", "cursor")
             [] o = "ok" -> Return("true", "")
    /\ UNCHANGED <<env, acc, shardIds, mode, attempt, refreshes, todo, calls, resp,
                   skipped, folded, md5>>

\* cursorCommandPassthrough from the cursor's first batch on; "badcursor" is
\* an ok response whose cursor storePossibleCursor cannot register
CursorCommandPassthroughReturn ==
    /\ pc = "await"
    /\ mode = "passthrough"
    /\ env.cmd \in CursorCmds
    /\ \E o \in Outcomes \cup {"badcursor"} :
        /\ seen' = Append(seen, o)
        /\ inflight' = {}
        /\ CASE o = "fail" -> Return("false", "OperationFailed")
             [] o = "stale" -> Throw("StaleConfig")
             [] o = "notok" -> Return("false", "shard")
             [] o = "badcursor" -> Return("false", "cursor")
             [] o = "ok" -> Return("true", "")
    /\ UNCHANGED <<env, acc, shardIds, mode, attempt, refreshes, todo, calls, resp, skipped,
                   folded, md5>>

\* --------------------------------------------- stale-topology retry contract
\* Attempt -> Refresh-And-Retry: a stale-config exception that left a
\* single-target passthrough on its first attempt refreshes the catalog and
\* runs the command once more
SinglePassthroughRetries == 1

RefreshAndRetry ==
    /\ pc = "caught"
    /\ err = "StaleConfig"
    /\ mode = "passthrough"
    /\ attempt <= SinglePassthroughRetries
    /\ refreshes' = refreshes + 1
    /\ attempt' = attempt + 1
    /\ pc' = "start"
    /\ mode' = "none"
    /\ err' = ""
    /\ UNCHANGED <<env, acc, shardIds, todo, calls, inflight, resp, skipped, folded, seen, ok,
                   md5>>

\* every other exception, a stale signal inside a fan-out and a stale signal
\* after the retry is spent are surfaced to the caller as the failure
SurfaceFailure ==
    /\ pc = "caught"
    /\ ~(err = "StaleConfig" /\ mode = "passthrough"
            /\ attempt <= SinglePassthroughRetries)
    /\ pc' = "done"
    /\ ok' = "false"
    /\ UNCHANGED <<env, acc, shardIds, mode, attempt, refreshes, todo, calls, inflight, resp,
                   skipped, folded, seen, err, md5>>

\* ----------------------------------------------------- passthrough commands
\* CmdListCollections::run, CmdListIndexes::run
CmdListRun ==
    /\ pc = "start"
    /\ env.cmd \in CursorCmds
    /\ IF env.input = "bad" THEN Raise("InvalidNamespace")
       ELSE CursorCommandPassthrough
    /\ UNCHANGED Rest

\* CreateCmd::run, EvalCmd::run
PlainPassthroughRun ==
    /\ pc = "start"
    /\ env.cmd \in PlainPassthroughCmds
    /\ Passthrough
    /\ UNCHANGED Rest

\* mutant: the isSharded test is lost and the command is always passed through
NotAllowedOnShardedCollectionCmdRun_NoShardedTest ==
    /\ pc = "start"
    /\ env.cmd \in NotAllowedCmds
    /\ IF env.input = "crossDb" THEN Fail("crossDb")
       ELSE IF env.input = "bad" THEN Raise("InvalidNamespace")
       ELSE Passthrough
    /\ UNCHANGED Rest

\* NotAllowedOnShardedCollectionCmd::run (convertToCapped, group), and
\* SplitVectorCmd::run, which first refuses a namespace of another database
NotAllowedOnShardedCollectionCmdRun ==
    /\ pc = "start"
    /\ env.cmd \in NotAllowedCmds
    /\ IF env.input = "crossDb" THEN Fail("crossDb")
       ELSE IF env.input = "bad" THEN Raise("InvalidNamespace")
       ELSE IF ~isSharded THEN Passthrough
       ELSE Fail("IllegalOperation")
    /\ UNCHANGED Rest

\* RenameCollectionCmd::run
RenameCollectionCmdRun ==
    /\ pc = "start"
    /\ env.cmd = "renameCollection"
    /\ IF env.input = "bad" THEN Raise("InvalidNamespace")
       ELSE IF isSharded THEN Raise("13138")
       ELSE IF env.toSharded THEN Raise("13139")
       ELSE IF env.toPrimary # getPrimaryId THEN Raise("13137")
       ELSE Passthrough
    /\ UNCHANGED Rest

\* CopyDBCmd::run: todb is tested first; with a fromhost the command is
\* passed through as it is, and fromdb is tested only without one
CopyDBCmdRun ==
    /\ pc = "start"
    /\ env.cmd = "copydb"
    /\ IF env.input = "bad" THEN Raise("InvalidNamespace")
       ELSE IF env.todbSharded THEN Raise("IllegalOperation")
       ELSE IF env.input \in {"fromhost", "fromhostBadFromdb"} THEN Passthrough
       ELSE IF env.input = "badFromdb" THEN Raise("InvalidNamespace")
       ELSE IF env.fromdbSharded THEN Raise("IllegalOperation")
       ELSE IF ~getShardOK(env.toPrimary) THEN Raise("ShardNotFound")
       ELSE Passthrough
    /\ UNCHANGED Rest

\* GroupCmd::explain up to the blocking runCommand
GroupCmdExplain ==
    /\ pc = "start"
    /\ env.cmd = "groupExplain"
    /\ IF env.input = "bad" THEN Raise("InvalidNamespace")
       ELSE IF isSharded THEN Fail("IllegalOperation")
       ELSE IF ~getShardOK(getPrimaryId) THEN Fail("ShardNotFound")
       ELSE /\ mode' = "passthrough"
            /\ todo' = todo
            /\ Send(getPrimaryId)
            /\ pc' = "await"
            /\ UNCHANGED <<ok, err>>
    /\ UNCHANGED Rest

\* GroupCmd::explain after runCommand: every exception is caught and turned
\* into the returned Status, so nothing reaches the retry contract
GroupCmdExplainReturn ==
    /\ pc = "await"
    /\ env.cmd = "groupExplain"
    /\ \E o \in Outcomes :
        /\ seen' = Append(seen, o)
        /\ inflight' = {}
        /\ CASE o = "ok" -> Return("true", "")
             [] o = "notok" -> Return("false", "OperationFailed")
             [] o = "stale" -> Return("false", "StaleConfig")
             [] o = "fail" -> Return("false", "HostUnreachable")
    /\ UNCHANGED <<env, acc, shardIds, mode, attempt, refreshes, todo, calls, resp, skipped,
                   folded, md5>>

\* DistinctCmd::run when the passthrough failed with a resolved-view error:
\* the command is rewritten as an aggregation on the view's namespace and
\* handed to the aggregate command, which dispatches on its own
DistinctViewFallback ==
    /\ pc = "view"
    /\ \E formatted \in BOOLEAN :
        IF formatted THEN Return("true", "") ELSE Return("false", "view")
    /\ mode' = "aggregate"
    /\ UNCHANGED <<env, acc, shardIds, attempt, refreshes, todo, calls, inflight, resp,
                   skipped, folded, seen, md5>>

\* -------------------------------------------------------- sequential fan-out
\* index of the first target of q the registry knows, 0 when there is none
FirstLive(q) ==
    IF \E i \in 1..Len(q) : getShardOK(q[i])
    THEN Min({i \in 1..Len(q) : getShardOK(q[i])})
    ELSE 0

\* mutant: a shard the registry does not know fails the command
\* (uassertStatusOK, as _passthrough does) instead of being skipped
FanOut_NotFoundThrows(q) ==
    /\ mode' = "scatter"
    /\ skipped' = skipped
    /\ IF q = <<>>
       THEN /\ todo' = <<>>
            /\ inflight' = {}
            /\ calls' = calls
            /\ Return("true", "")
       ELSE IF ~getShardOK(Head(q))
       THEN /\ todo' = q
            /\ inflight' = {}
            /\ calls' = calls
            /\ Throw("ShardNotFound")
       ELSE /\ todo' = q
            /\ inflight' = {Head(q)}
            /\ calls' = Append(calls, Head(q))
            /\ pc' = "await"
            /\ UNCHANGED <<ok, err>>

\* for (const ShardId& shardId : shardIds): shards the registry does not know
\* are skipped (continue); the first one it knows gets the command, and the
\* loop blocks in runCommand; after the last target the merged response is
\* written and the command returns true
FanOut(q) ==
    LET i == FirstLive(q) IN
    /\ mode' = "scatter"
    /\ IF i = 0
       THEN /\ skipped' = skipped \cup Range(q)
            /\ todo' = <<>>
            /\ inflight' = {}
            /\ calls' = calls
            /\ Return("true", "")
       ELSE /\ skipped' = skipped \cup {q[j] : j \in 1..(i - 1)}
            /\ todo' = SubSeq(q, i, Len(q))
            /\ inflight' = {q[i]}
            /\ calls' = Append(calls, q[i])
            /\ pc' = "await"
            /\ UNCHANGED <<ok, err>>

\* mutant: a not-ok response is dropped and the loop goes on
FanOutReturn_IgnoresNotOk(o) ==
    /\ seen' = Append(seen, o)
    /\ CASE o = "ok" ->
                /\ folded' = Append(folded, Head(todo))
                /\ FanOut(Tail(todo))
         [] o = "notok" ->
                /\ folded' = folded
                /\ FanOut(Tail(todo))
         [] o = "stale" ->
                /\ Throw("StaleConfig")
                /\ inflight' = {}
                /\ UNCHANGED <<mode, todo, calls, skipped, folded>>
         [] o = "fail" ->
                /\ Throw("HostUnreachable")
                /\ inflight' = {}
                /\ UNCHANGED <<mode, todo, calls, skipped, folded>>

\* mutant: a stale reply makes the loop send the command to that shard again
FanOutReturn_RetriesStale(o) ==
    /\ seen' = Append(seen, o)
    /\ CASE o = "ok" ->
                /\ folded' = Append(folded, Head(todo))
                /\ FanOut(Tail(todo))
         [] o = "notok" ->
                /\ Return("false", "shard")
                /\ inflight' = {}
                /\ UNCHANGED <<mode, todo, calls, skipped, folded>>
         [] o = "stale" ->
                /\ FanOut(todo)
                /\ folded' = folded
         [] o = "fail" ->
                /\ Throw("HostUnreachable")
                /\ inflight' = {}
                /\ UNCHANGED <<mode, todo, calls, skipped, folded>>

\* the loop body after runCommand: a not-ok response ends the command with
\* that shard's error, an ok response is folded into the accumulator and the
\* loop goes on; an exception leaves run
FanOutReturn(o) ==
    /\ seen' = Append(seen, o)
    /\ CASE o = "ok" ->
                /\ folded' = Append(folded, Head(todo))
                /\ FanOut(Tail(todo))
         [] o = "notok" ->
                /\ Return("false", "shard")
                /\ inflight' = {}
                /\ UNCHANGED <<mode, todo, calls, skipped, folded>>
         [] o = "stale" ->
                /\ Throw("StaleConfig")
                /\ inflight' = {}
                /\ UNCHANGED <<mode, todo, calls, skipped, folded>>
         [] o = "fail" ->
                /\ Throw("HostUnreachable")
                /\ inflight' = {}
                /\ UNCHANGED <<mode, todo, calls, skipped, folded>>

RunRest == <<env, acc, attempt, refreshes, resp, folded, seen, md5>>
LoopRest == <<env, acc, shardIds, attempt, refreshes, resp, md5>>

\* mutant: the targets are taken from the registry, not the chunk manager
CollectionStatsRun_RegistryTargets ==
    /\ pc = "start"
    /\ env.cmd = "collStats"
    /\ IF env.input = "bad" THEN Raise("InvalidNamespace") /\ skipped' = skipped
       ELSE IF ~isSharded THEN Passthrough /\ skipped' = skipped
       ELSE FanOut(SetToSeq(getAllShardIdsRegistry))
    /\ shardIds' = IF env.input = "ok" /\ isSharded THEN getAllShardIdsRegistry
                   ELSE shardIds
    /\ UNCHANGED <<env, acc, attempt, refreshes, resp, folded, seen, md5>>

\* CollectionStats::run
CollectionStatsRun ==
    /\ pc = "start"
    /\ env.cmd = "collStats"
    /\ IF env.input = "bad" THEN Raise("InvalidNamespace") /\ skipped' = skipped
       ELSE IF ~isSharded THEN Passthrough /\ skipped' = skipped
       ELSE FanOut(SetToSeq(cmAllShardIds))
    /\ shardIds' = IF env.input = "ok" /\ isSharded THEN cmAllShardIds
                   ELSE shardIds
    /\ UNCHANGED RunRest

CollectionStatsLoop ==
    /\ pc = "await"
    /\ mode = "scatter"
    /\ env.cmd = "collStats"
    /\ \E o \in Outcomes : FanOutReturn(o)
    /\ UNCHANGED LoopRest

\* mutant: keyPattern, min and max are not tested against the shard key
DataSizeCmdRun_NoKeyTest ==
    /\ pc = "start"
    /\ env.cmd = "dataSize"
    /\ IF env.input = "bad" THEN Raise("InvalidNamespace") /\ skipped' = skipped
       ELSE IF ~isSharded THEN Passthrough /\ skipped' = skipped
       ELSE FanOut(SetToSeq(cmShardIdsForQuery(getQueryIsEmpty)))
    /\ shardIds' = IF env.input # "bad" /\ isSharded
                   THEN cmShardIdsForQuery(getQueryIsEmpty) ELSE shardIds
    /\ UNCHANGED RunRest

\* DataSizeCmd::run: on the sharded path keyPattern must equal the shard key
\* (13408) and min and max must have it (13405, 13406) before the range is
\* targeted
DataSizeCmdRun ==
    /\ pc = "start"
    /\ env.cmd = "dataSize"
    /\ IF env.input = "bad" THEN Raise("InvalidNamespace") /\ skipped' = skipped
       ELSE IF ~isSharded THEN Passthrough /\ skipped' = skipped
       ELSE IF env.input = "badKey" THEN Raise("13408") /\ skipped' = skipped
       ELSE IF env.input = "badMin" THEN Raise("13405") /\ skipped' = skipped
       ELSE IF env.input = "badMax" THEN Raise("13406") /\ skipped' = skipped
       ELSE FanOut(SetToSeq(cmShardIdsForQuery(getQueryIsEmpty)))
    /\ shardIds' = IF env.input = "ok" /\ isSharded
                   THEN cmShardIdsForQuery(getQueryIsEmpty) ELSE shardIds
    /\ UNCHANGED RunRest

DataSizeCmdLoop ==
    /\ pc = "await"
    /\ mode = "scatter"
    /\ env.cmd = "dataSize"
    /\ \E o \in Outcomes : FanOutReturn(o)
    /\ UNCHANGED LoopRest

\* mutant: the collation is not tested before the shards are called
DistinctCmdRun_NoCollationTest ==
    /\ pc = "start"
    /\ env.cmd = "distinct"
    /\ IF env.input = "bad" THEN Raise("InvalidNamespace") /\ skipped' = skipped
       ELSE IF ~isSharded THEN Passthrough /\ skipped' = skipped
       ELSE FanOut(SetToSeq(cmShardIdsForQuery(getQueryIsEmpty)))
    /\ shardIds' = IF env.input # "bad" /\ isSharded
                   THEN cmShardIdsForQuery(getQueryIsEmpty) ELSE shardIds
    /\ UNCHANGED RunRest

\* DistinctCmd::run
DistinctCmdRun ==
    /\ pc = "start"
    /\ env.cmd = "distinct"
    /\ IF env.input = "bad" THEN Raise("InvalidNamespace") /\ skipped' = skipped
       ELSE IF ~isSharded THEN Passthrough /\ skipped' = skipped
       ELSE IF env.input = "badCollation"
            THEN Fail("TypeMismatch") /\ skipped' = skipped
       ELSE FanOut(SetToSeq(cmShardIdsForQuery(getQueryIsEmpty)))
    /\ shardIds' = IF env.input = "ok" /\ isSharded
                   THEN cmShardIdsForQuery(getQueryIsEmpty) ELSE shardIds
    /\ UNCHANGED RunRest

DistinctCmdLoop ==
    /\ pc = "await"
    /\ mode = "scatter"
    /\ env.cmd = "distinct"
    /\ \E o \in Outcomes : FanOutReturn(o)
    /\ UNCHANGED LoopRest

\* ------------------------------------------------------------- geoNear
\* Geo2dFindNearCmd::run up to the first join: one future is spawned for every
\* target the registry knows, in shard-id order
Geo2dFindNearCmdRun ==
    /\ pc = "start"
    /\ env.cmd = "geoNear"
    /\ IF env.input = "bad" THEN Raise("InvalidNamespace") /\ skipped' = skipped
       ELSE IF ~isSharded THEN Passthrough /\ skipped' = skipped
       ELSE IF env.input = "badCollation"
            THEN Fail("TypeMismatch") /\ skipped' = skipped
       ELSE LET live == {s \in cmShardIdsForQuery(getQueryIsEmpty) :
                            getShardOK(s)} IN
            /\ mode' = "scatter"
            /\ skipped' = cmShardIdsForQuery(getQueryIsEmpty) \ live
            /\ todo' = SetToSeq(live)
            /\ calls' = calls \o SetToSeq(live)
            /\ inflight' = live
            /\ pc' = "join"
            /\ UNCHANGED <<ok, err>>
    /\ shardIds' = IF env.input = "ok" /\ isSharded
                   THEN cmShardIdsForQuery(getQueryIsEmpty) ELSE shardIds
    /\ UNCHANGED RunRest

\* a spawned command completes on its shard, in any order
FutureComplete ==
    /\ pc = "join"
    /\ \E s \in inflight \ DOMAIN resp : \E o \in Outcomes :
        resp' = (s :> o) @@ resp
    /\ UNCHANGED <<env, acc, shardIds, pc, mode, attempt, refreshes, todo, calls, inflight,
                   skipped, folded, seen, ok, err, md5>>

\* mutant: the merged response is written after the first successful join
Geo2dFindNearJoin_ReturnsEarly ==
    /\ pc = "join"
    /\ IF todo = <<>>
       THEN /\ Return("true", "")
            /\ UNCHANGED <<todo, inflight, resp, folded, seen>>
       ELSE LET s == Head(todo) IN
            /\ s \in DOMAIN resp
            /\ seen' = Append(seen, resp[s])
            /\ inflight' = inflight \ {s}
            /\ resp' = [x \in DOMAIN resp \ {s} |-> resp[x]]
            /\ CASE resp[s] = "ok" ->
                        /\ folded' = Append(folded, s)
                        /\ todo' = Tail(todo)
                        /\ Return("true", "")
                 [] resp[s] = "notok" ->
                        /\ Return("false", "shard")
                        /\ UNCHANGED <<todo, folded>>
                 [] resp[s] = "stale" ->
                        /\ Throw("StaleConfig")
                        /\ UNCHANGED <<todo, folded>>
                 [] resp[s] = "fail" ->
                        /\ Throw("HostUnreachable")
                        /\ UNCHANGED <<todo, folded>>
    /\ UNCHANGED <<env, acc, shardIds, mode, attempt, refreshes, calls, skipped,
                   md5>>

\* mutant: a future is joined as soon as it has completed, whatever its
\* place in the list
Geo2dFindNearJoin_CompletionOrder ==
    /\ pc = "join"
    /\ IF todo = <<>>
       THEN /\ Return("true", "")
            /\ UNCHANGED <<todo, inflight, resp, folded, seen>>
       ELSE \E s \in Range(todo) \cap DOMAIN resp :
            /\ seen' = Append(seen, resp[s])
            /\ inflight' = inflight \ {s}
            /\ resp' = [x \in DOMAIN resp \ {s} |-> resp[x]]
            /\ CASE resp[s] = "ok" ->
                        /\ folded' = Append(folded, s)
                        /\ todo' = SelectSeq(todo, LAMBDA x : x # s)
                        /\ UNCHANGED <<pc, ok, err>>
                 [] resp[s] = "notok" ->
                        /\ Return("false", "shard")
                        /\ todo' = <<s>> \o SelectSeq(todo, LAMBDA x : x # s)
                        /\ folded' = folded
                 [] resp[s] = "stale" ->
                        /\ Throw("StaleConfig")
                        /\ UNCHANGED <<todo, folded>>
                 [] resp[s] = "fail" ->
                        /\ Throw("HostUnreachable")
                        /\ UNCHANGED <<todo, folded>>
    /\ UNCHANGED <<env, acc, shardIds, mode, attempt, refreshes, calls, skipped, md5>>

\* Geo2dFindNearCmd::run, the join loop: the futures are joined in the order
\* they were spawned, each result is merged as soon as its join returns, the
\* first failed join ends the command, and after the last join the merged
\* response is written
Geo2dFindNearJoin ==
    /\ pc = "join"
    /\ IF todo = <<>>
       THEN /\ Return("true", "")
            /\ UNCHANGED <<todo, inflight, resp, folded, seen>>
       ELSE LET s == Head(todo) IN
            /\ s \in DOMAIN resp
            /\ seen' = Append(seen, resp[s])
            /\ inflight' = inflight \ {s}
            /\ resp' = [x \in DOMAIN resp \ {s} |-> resp[x]]
            /\ CASE resp[s] = "ok" ->
                        /\ folded' = Append(folded, s)
                        /\ todo' = Tail(todo)
                        /\ UNCHANGED <<pc, ok, err>>
                 [] resp[s] = "notok" ->
                        /\ Return("false", "shard")
                        /\ UNCHANGED <<todo, folded>>
                 [] resp[s] = "stale" ->
                        /\ Throw("StaleConfig")
                        /\ UNCHANGED <<todo, folded>>
                 [] resp[s] = "fail" ->
                        /\ Throw("HostUnreachable")
                        /\ UNCHANGED <<todo, folded>>
    /\ UNCHANGED <<env, acc, shardIds, mode, attempt, refreshes, calls, skipped, md5>>

\* ------------------------------------------------- gathered dispatch
\* Strategy::commandOp: the command goes to every targeted shard and the call
\* returns once all of them have answered, with the results in target order
CommandOp(targets) ==
    /\ mode' = "scatter"
    /\ todo' = SetToSeq(targets)
    /\ calls' = calls \o SetToSeq(targets)
    /\ inflight' = targets
    /\ pc' = "gather"
    /\ UNCHANGED <<ok, err>>

CommandOpRespond ==
    /\ pc = "gather"
    /\ \E s \in inflight \ DOMAIN resp : \E o \in Outcomes :
        resp' = (s :> o) @@ resp
    /\ UNCHANGED <<env, acc, shardIds, pc, mode, attempt, refreshes, todo, calls, inflight,
                   skipped, folded, seen, ok, err, md5>>

Gathered == pc = "gather" /\ DOMAIN resp = inflight
GatherThrew == \E s \in DOMAIN resp : resp[s] \in {"stale", "fail"}
GatheredSeen == seen \o [i \in 1..Len(todo) |-> resp[todo[i]]]

\* Strategy::commandOp leaves by an exception when a shard could not be
\* reached or answered stale
CommandOpThrow ==
    /\ Gathered
    /\ env.cmd \in {"validate", "filemd5"}
    /\ GatherThrew
    /\ seen' = GatheredSeen
    /\ inflight' = {}
    /\ resp' = NoResp
    /\ Throw(IF \E s \in DOMAIN resp : resp[s] = "stale"
             THEN "StaleConfig" ELSE "HostUnreachable")
    /\ UNCHANGED <<env, acc, shardIds, mode, attempt, refreshes, todo, calls, skipped, folded,
                   md5>>

\* ValidateCmd::run up to commandOp
ValidateCmdRun ==
    /\ pc = "start"
    /\ env.cmd = "validate"
    /\ IF env.input = "bad" THEN Raise("InvalidNamespace")
       ELSE IF ~isSharded THEN Passthrough
       ELSE CommandOp(cmShardIdsForQuery(TRUE))
    /\ shardIds' = IF env.input = "ok" /\ isSharded THEN cmShardIdsForQuery(TRUE)
                   ELSE shardIds
    /\ UNCHANGED <<env, acc, attempt, refreshes, resp, skipped, folded, seen, md5>>

\* ValidateCmd::run, the loop over the results: every result goes under raw,
\* valid is and-ed, and a result with an errmsg makes the command fail
ValidateCmdMerge ==
    /\ Gathered
    /\ env.cmd = "validate"
    /\ ~GatherThrew
    /\ seen' = GatheredSeen
    /\ folded' = folded \o todo
    /\ inflight' = {}
    /\ resp' = NoResp
    /\ IF \E s \in DOMAIN resp : resp[s] = "notok"
       THEN Return("false", "shard")
       ELSE Return("true", "")
    /\ UNCHANGED <<env, acc, shardIds, mode, attempt, refreshes, todo, calls, skipped, md5>>

\* AllShardsCollectionCommand::getShardIds
getShardIds ==
    IF ~isSharded THEN {getPrimaryId} ELSE getAllShardIdsRegistry

\* RunOnAllShardsCommand::run: the command goes to every shard getShardIds
\* names and the registry knows
RunOnAllShardsCommandRun ==
    /\ pc = "start"
    /\ env.cmd \in AllShardsCmds
    /\ IF env.input = "bad" THEN Raise("InvalidNamespace") /\ skipped' = skipped
       ELSE /\ CommandOp({s \in getShardIds : getShardOK(s)})
            /\ skipped' = {s \in getShardIds : ~getShardOK(s)}
    /\ shardIds' = IF env.input = "ok" THEN getShardIds ELSE shardIds
    /\ UNCHANGED RunRest

\* RunOnAllShardsCommand::run once every shard has answered: any failure is
\* the command's failure
RunOnAllShardsCommandDone ==
    /\ Gathered
    /\ env.cmd \in AllShardsCmds
    /\ seen' = GatheredSeen
    /\ inflight' = {}
    /\ resp' = NoResp
    /\ IF \A s \in DOMAIN resp : resp[s] = "ok"
       THEN Return("true", "") /\ folded' = folded \o todo
       ELSE Return("false", "shard") /\ folded' = folded
    /\ UNCHANGED <<env, acc, shardIds, mode, attempt, refreshes, todo, calls, skipped, md5>>

\* ------------------------------------------------------------- filemd5
\* the shard's filemd5 with partialOk: from startAt on it digests the parts it
\* holds until the first part it does not hold, and reports that part's number
\* and the digest state so far (the state is the sequence of parts digested)
RECURSIVE RunEnd(_, _)
RunEnd(s, i) ==
    IF i < env.numParts /\ env.chunkOwner[i] = s THEN RunEnd(s, i + 1) ELSE i

ShardFileMD5(s, req) ==
    LET e == RunEnd(s, req.startAt) IN
    [numChunks |-> e,
     md5state |-> req.md5state \o [k \in 1..(e - req.startAt) |->
                                        req.startAt + k - 1],
     from |-> s]

\* mutant: the request never carries the md5state of the last result
ShardCmd_NoState(n, hasLast, last) ==
    [startAt |-> n, hasState |-> FALSE, md5state |-> <<>>]

\* the bb builder: cmdObj, partialOk, startAt and, once there is a last
\* result, its md5state
ShardCmd(n, hasLast, last) ==
    [startAt |-> n, hasState |-> hasLast,
     md5state |-> IF hasLast THEN last.md5state ELSE <<>>]

\* mutant: with the request for n the request for the part after it is sent
\* too, before anything has been received
FileMD5Send_Prefetch(n, hasLast, last) ==
    LET s == env.chunkOwner[n]
        n2 == IF n + 1 \in Parts THEN n + 1 ELSE n
        s2 == env.chunkOwner[n2]
    IN
    /\ md5' = [md5 EXCEPT !.n = n, !.hasLast = hasLast, !.last = last,
                          !.sent = @ \o <<[cmd |-> ShardCmd(n, hasLast, last),
                                           to |-> s],
                                          [cmd |-> ShardCmd(n2, hasLast, last),
                                           to |-> s2]>>]
    /\ calls' = calls \o <<s, s2>>
    /\ inflight' = {s, s2}
    /\ pc' = "md5await"
    /\ UNCHANGED <<ok, err>>

\* mutant: the finder names part 0 whatever n is, so every request goes to
\* the shard of the first part
FileMD5Send_FinderAtZero(n, hasLast, last) ==
    LET s == env.chunkOwner[0] IN
    /\ md5' = [md5 EXCEPT !.n = n, !.hasLast = hasLast, !.last = last,
                          !.sent = Append(@, [cmd |-> ShardCmd(n, hasLast, last),
                                              to |-> s])]
    /\ calls' = Append(calls, s)
    /\ inflight' = {s}
    /\ pc' = "md5await"
    /\ UNCHANGED <<ok, err>>

\* one iteration of while (true) up to the blocking commandOp, which targets
\* the shard owning {files_id, n}
FileMD5Send(n, hasLast, last) ==
    LET s == env.chunkOwner[n] IN
    /\ md5' = [md5 EXCEPT !.n = n, !.hasLast = hasLast, !.last = last,
                          !.sent = Append(@, [cmd |-> ShardCmd(n, hasLast, last),
                                              to |-> s])]
    /\ calls' = Append(calls, s)
    /\ inflight' = {s}
    /\ pc' = "md5await"
    /\ UNCHANGED <<ok, err>>

\* mutant: under any other shard key the command is sent to all the shards
\* of the collection
FileMD5CmdRun_OtherKeyToAllShards ==
    /\ pc = "start"
    /\ env.cmd = "filemd5"
    /\ IF env.input = "bad" THEN Raise("InvalidNamespace") /\ md5' = md5
       ELSE IF ~isSharded THEN Passthrough /\ md5' = md5
       ELSE IF env.keyShape = "files_id"
            THEN CommandOp({env.chunkOwner[0]}) /\ md5' = md5
       ELSE IF env.keyShape = "files_id_n"
            THEN /\ mode' = "scatter"
                 /\ todo' = todo
                 /\ FileMD5Send(0, FALSE, NoLast)
       ELSE CommandOp(cmAllShardIds) /\ md5' = md5
    /\ UNCHANGED <<env, acc, shardIds, attempt, refreshes, resp, skipped, folded,
                   seen>>

\* FileMD5Cmd::run
FileMD5CmdRun ==
    /\ pc = "start"
    /\ env.cmd = "filemd5"
    /\ IF env.input = "bad" THEN Raise("InvalidNamespace") /\ md5' = md5
       ELSE IF ~isSharded THEN Passthrough /\ md5' = md5
       ELSE IF env.keyShape = "files_id"
            THEN CommandOp({env.chunkOwner[0]}) /\ md5' = md5
       ELSE IF env.keyShape = "files_id_n"
            THEN /\ mode' = "scatter"
                 /\ todo' = todo
                 /\ FileMD5Send(0, FALSE, NoLast)
       ELSE Fail("shardkey") /\ md5' = md5
    /\ UNCHANGED <<env, acc, shardIds, attempt, refreshes, resp, skipped, folded,
                   seen>>

\* mutant: the one result is appended and the command reports success
FileMD5OnePartReturn_AlwaysTrue ==
    /\ Gathered
    /\ env.cmd = "filemd5"
    /\ ~GatherThrew
    /\ seen' = GatheredSeen
    /\ folded' = folded \o todo
    /\ inflight' = {}
    /\ resp' = NoResp
    /\ LET s == todo[1] IN
       /\ Return("true", "")
       /\ md5' = [md5 EXCEPT !.out = [kind |-> "response", from |-> s]]
    /\ UNCHANGED <<env, acc, shardIds, mode, attempt, refreshes, todo, calls, skipped>>

\* FileMD5Cmd::run, shard key {files_id:1}: the one result is the answer
FileMD5OnePartReturn ==
    /\ Gathered
    /\ env.cmd = "filemd5"
    /\ ~GatherThrew
    /\ seen' = GatheredSeen
    /\ folded' = folded \o todo
    /\ inflight' = {}
    /\ resp' = NoResp
    /\ LET s == todo[1] IN
       IF resp[s] = "ok"
       THEN /\ Return("true", "")
            /\ md5' = [md5 EXCEPT !.out = [kind |-> "response", from |-> s]]
       ELSE /\ Return("false", "shard")
            /\ md5' = [md5 EXCEPT !.out = [kind |-> "error", from |-> s]]
    /\ UNCHANGED <<env, acc, shardIds, mode, attempt, refreshes, todo, calls, skipped>>

\* mutant: the first ok result is returned, whatever numChunks it reports
FileMD5Return_NoChaining(o) ==
    /\ pc = "md5await"
    /\ LET n == md5.n
           s == env.chunkOwner[n]
           sent == md5.sent[Len(md5.sent)].cmd
           good == ShardFileMD5(s, sent)
       IN   /\ o = "backwards" => n > 0
            /\ seen' = Append(seen, o)
            /\ inflight' = {}
            /\ calls' = calls
            /\ IF o \in {"notok", "stale", "fail"}
               THEN /\ Return("false", "filemd5")
                    /\ md5' = [md5 EXCEPT !.out = [kind |-> "failure",
                                                   failedAt |-> n,
                                                   sentCommand |-> sent]]
                    /\ folded' = folded
               ELSE IF o = "nostate"
               THEN /\ Throw("16246")
                    /\ UNCHANGED <<folded, md5>>
               ELSE LET res == IF o = "ok" THEN good
                               ELSE [good EXCEPT !.numChunks = n - 1]
                    IN /\ folded' = Append(folded, s)
                       /\ Return("true", "")
                       /\ md5' = [md5 EXCEPT !.hasLast = TRUE, !.last = res,
                                             !.out = [kind |-> "response",
                                                      res |-> res]]
    /\ UNCHANGED <<env, acc, shardIds, mode, attempt, refreshes, todo, resp,
                   skipped>>

\* mutant: the next request starts at the numChunks reported, whether it is
\* larger than n or not
FileMD5Return_FollowsNumChunks(o) ==
    /\ pc = "md5await"
    /\ LET n == md5.n
           s == env.chunkOwner[n]
           sent == md5.sent[Len(md5.sent)].cmd
           good == ShardFileMD5(s, sent)
       IN   /\ o = "backwards" => n > 0
            /\ seen' = Append(seen, o)
            /\ IF o \in {"notok", "stale", "fail"}
               THEN /\ Return("false", "filemd5")
                    /\ md5' = [md5 EXCEPT !.out = [kind |-> "failure",
                                                   failedAt |-> n,
                                                   sentCommand |-> sent]]
                    /\ inflight' = {}
                    /\ UNCHANGED <<calls, folded>>
               ELSE IF o = "nostate"
               THEN /\ Throw("16246")
                    /\ inflight' = {}
                    /\ UNCHANGED <<calls, folded, md5>>
               ELSE LET res == IF o = "ok" THEN good
                               ELSE [good EXCEPT !.numChunks = n - 1]
                        nNext == res.numChunks
                    IN /\ folded' = Append(folded, s)
                       /\ IF n = nNext
                          THEN /\ Return("true", "")
                               /\ md5' = [md5 EXCEPT
                                            !.hasLast = TRUE, !.last = res,
                                            !.out = [kind |-> "response",
                                                     res |-> res]]
                               /\ inflight' = {}
                               /\ calls' = calls
                          ELSE FileMD5Send(nNext, TRUE, res)
    /\ UNCHANGED <<env, acc, shardIds, mode, attempt, refreshes, todo, resp,
                   skipped>>

\* FileMD5Cmd::run, shard key {files_id:1, n:1}: the rest of the iteration
\* after commandOp. An exception of commandOp is caught and becomes a not-ok
\* result; a not-ok result ends the command with failedAt and sentCommand; a
\* result without md5state trips the uassert; numChunks equal to n ends the
\* command with this result; a smaller numChunks trips the verify; a larger
\* one starts the next iteration
FileMD5Return(o) ==
    /\ pc = "md5await"
    /\ LET n == md5.n
           s == env.chunkOwner[n]
           sent == md5.sent[Len(md5.sent)].cmd
           good == ShardFileMD5(s, sent)
       IN   /\ o = "backwards" => n > 0
            /\ seen' = Append(seen, o)
            /\ IF o \in {"notok", "stale", "fail"}
               THEN /\ Return("false", "filemd5")
                    /\ md5' = [md5 EXCEPT !.out = [kind |-> "failure",
                                                   failedAt |-> n,
                                                   sentCommand |-> sent]]
                    /\ inflight' = {}
                    /\ UNCHANGED <<calls, folded>>
               ELSE IF o = "nostate"
               THEN /\ Throw("16246")
                    /\ inflight' = {}
                    /\ UNCHANGED <<calls, folded, md5>>
               ELSE LET res == IF o = "ok" THEN good
                               ELSE [good EXCEPT !.numChunks = n - 1]
                        nNext == res.numChunks
                    IN /\ folded' = Append(folded, s)
                       /\ IF n = nNext
                          THEN /\ Return("true", "")
                               /\ md5' = [md5 EXCEPT
                                            !.hasLast = TRUE, !.last = res,
                                            !.out = [kind |-> "response",
                                                     res |-> res]]
                               /\ inflight' = {}
                               /\ calls' = calls
                          ELSE IF ~(nNext > n)
                          THEN /\ Throw("verify")
                               /\ md5' = [md5 EXCEPT !.hasLast = TRUE,
                                                     !.last = res]
                               /\ inflight' = {}
                               /\ calls' = calls
                          ELSE FileMD5Send(nNext, TRUE, res)
    /\ UNCHANGED <<env, acc, shardIds, mode, attempt, refreshes, todo, resp,
                   skipped>>

FileMD5Loop == \E o \in Outcomes \cup {"nostate", "backwards"} : FileMD5Return(o)

Next ==
    \/ CmdListRun
    \/ PlainPassthroughRun
    \/ NotAllowedOnShardedCollectionCmdRun
    \/ RenameCollectionCmdRun
    \/ CopyDBCmdRun
    \/ GroupCmdExplain
    \/ GroupCmdExplainReturn
    \/ PassthroughReturn
    \/ CursorCommandPassthroughReturn
    \/ DistinctViewFallback
    \/ CollectionStatsRun
    \/ CollectionStatsLoop
    \/ DataSizeCmdRun
    \/ DataSizeCmdLoop
    \/ DistinctCmdRun
    \/ DistinctCmdLoop
    \/ Geo2dFindNearCmdRun
    \/ FutureComplete
    \/ Geo2dFindNearJoin
    \/ CommandOpRespond
    \/ CommandOpThrow
    \/ ValidateCmdRun
    \/ ValidateCmdMerge
    \/ RunOnAllShardsCommandRun
    \/ RunOnAllShardsCommandDone
    \/ FileMD5CmdRun
    \/ FileMD5OnePartReturn
    \/ FileMD5Loop
    \/ RefreshAndRetry
    \/ SurfaceFailure

Spec == Init /\ [][Next]_vars

\* ================================================================= claims
Done == pc = "done"
Contacted == Range(calls)
\* commands that reach their shard through _passthrough or
\* cursorCommandPassthrough (GroupCmd::explain dispatches on its own)
ViaPassthrough == mode = "passthrough" /\ env.cmd # "groupExplain"
ExcSeen(q) == \E i \in 1..Len(q) : q[i] \in {"stale", "fail"}

\* C1: a single-target passthrough whose shard answers stale exactly once is
\* refreshed and re-attempted exactly once (it never ends on that one stale
\* answer), and the ok response of the second attempt is the command's success
C1_StaleOnceRetriedOnce ==
    ViaPassthrough =>
        /\ Done => seen # <<"stale">>
        /\ seen = <<"stale">> /\ pc = "await" =>
                refreshes = 1 /\ attempt = 2 /\ calls = <<getPrimaryId, getPrimaryId>>
        /\ Done /\ seen = <<"stale", "ok">> =>
                /\ ok = "true"
                /\ refreshes = 1
                /\ attempt = 2
                /\ calls = <<getPrimaryId, getPrimaryId>>

C1_Witness ==
    /\ ViaPassthrough
    /\ Done
    /\ seen = <<"stale", "ok">>
    /\ ok = "true"
    /\ refreshes = 1

\* C2: the stale retry is bounded: a single-target passthrough contacts its
\* shard at most twice and refreshes at most once, and a second stale answer
\* ends the command in failure with no further refresh or dispatch
C2_RetryBounded ==
    mode \in {"none", "passthrough"} =>
        /\ Len(calls) <= 2
        /\ refreshes <= 1
        /\ Len(seen) = 2 /\ seen[2] = "stale" =>
                /\ pc \in {"caught", "done"}
                /\ Done => ok = "false"
                /\ ~ENABLED RefreshAndRetry

C2_Witness ==
    /\ ViaPassthrough
    /\ Done
    /\ seen = <<"stale", "stale">>
    /\ ok = "false"
    /\ Len(calls) = 2

\* C3: inside a multi-shard merge a stale signal or an exception from a shard
\* never leads to another dispatch or to a refresh: from the step that
\* consumes it on, no request is sent and the command ends as a failure
C3_NoRedispatchInMerge ==
    [][(mode' = "scatter" /\ env.cmd \in MergeCmds /\ ExcSeen(seen')) =>
            /\ calls' = calls
            /\ refreshes' = 0
            /\ attempt' = 1
            /\ pc' \in {"caught", "done"}
            /\ pc' = "done" => ok' = "false"]_vars

C3_Witness ==
    /\ mode = "scatter"
    /\ env.cmd \in MergeCmds
    /\ Done
    /\ ok = "false"
    /\ seen = <<"ok", "stale">>
    /\ Len(calls) = 2
    /\ Cardinality(shardIds \cap env.registered) = 3

\* C4: renameCollection, convertToCapped, splitVector and group (run and
\* explain) on a namespace the catalog reports as sharded issue no shard
\* call and fail with the sharded-collection rejection
IsReportedSharded ==
    /\ env.cmd \in RejectCmds
    /\ env.input = "ok"
    /\ isSharded \/ (env.cmd = "renameCollection" /\ env.toSharded)

C4_RejectedBeforeDispatch ==
    IsReportedSharded =>
        /\ calls = <<>>
        /\ pc # "await"
        /\ pc \in {"caught", "done"} =>
                IF env.cmd = "renameCollection"
                THEN err \in {"13138", "13139"}
                ELSE err = "IllegalOperation"
        /\ Done => ok = "false"

C4_Witness ==
    /\ IsReportedSharded
    /\ env.cmd \in NotAllowedCmds
    /\ env.primary \in env.registered
    /\ Done
    /\ ok = "false"
    /\ err = "IllegalOperation"

\* C5 (as claimed): every command run against a namespace the catalog reports
\* as not sharded contacts exactly one shard, the primary of the database
RunsUnsharded ==
    /\ env.input = "ok"
    /\ ~isSharded
    /\ ~env.toSharded
    /\ ~env.todbSharded
    /\ ~env.fromdbSharded

Dispatchable ==
    /\ getShardOK(getPrimaryId)
    /\ env.cmd = "renameCollection" => env.toPrimary = getPrimaryId

UnboundedScatter ==
    /\ mode = "scatter"
    /\ isSharded
    /\ env.cmd \in {"collStats", "validate"} \cup AllShardsCmds
            \/ (env.cmd \in QueryCmds /\ getQueryIsEmpty)

C6_TargetsAreTheOwners ==
    UnboundedScatter => shardIds = cmAllShardIds

\* C6 (amended): that holds for collStats, validate and the query commands;
\* the run-on-all-shards commands target every shard of the registry,
\* whether it holds the namespace or not
C6_TargetsOwnersOrRegistry ==
    UnboundedScatter =>
        shardIds = (IF env.cmd \in AllShardsCmds THEN getAllShardIdsRegistry
                    ELSE cmAllShardIds)

C6_Witness ==
    /\ UnboundedScatter
    /\ env.cmd = "dropIndexes"
    /\ cmAllShardIds = {2}
    /\ shardIds = {1, 2, 3}
    /\ calls = <<1, 2, 3>>

\* C7: in the fan-out of collStats, dataSize, distinct and geoNear a target
\* the registry does not know is skipped: it gets no call, the other targets
\* are still called, and when they all answer ok the command succeeds with
\* exactly their results merged
AllSeenOk == \A i \in 1..Len(seen) : seen[i] = "ok"

C7_ShardNotFoundSkipped ==
    (mode = "scatter" /\ env.cmd \in SkipCmds) =>
        /\ \A s \in Contacted : getShardOK(s)
        /\ skipped \subseteq {s \in shardIds : ~getShardOK(s)}
        /\ (Done /\ AllSeenOk) =>
            /\ ok = "true"
            /\ skipped = {s \in shardIds : ~getShardOK(s)}
            /\ calls = SetToSeq({s \in shardIds : getShardOK(s)})
            /\ folded = calls

C7_Witness ==
    /\ mode = "scatter"
    /\ env.cmd \in SkipCmds
    /\ Done
    /\ ok = "true"
    /\ shardIds = {1, 2, 3}
    /\ skipped = {2}
    /\ folded = <<1, 3>>

\* C8: in a scatter-gather command one failing shard (not-ok response, stale
\* signal, transport failure) fails the whole command; a command that
\* succeeds has merged every target it did not skip, and only shards the
\* registry does not know are skipped
C8_AnyShardFailureFails ==
    (mode = "scatter" /\ env.cmd \in MergeCmds) =>
        /\ ~AllSeenOk => pc \in {"caught", "done"} /\ ok # "true"
        /\ (Done /\ ~AllSeenOk) => ok = "false"
        /\ \A s \in skipped : ~getShardOK(s) /\ env.cmd \in SkipCmds
        /\ (Done /\ ok = "true" /\ env.cmd # "filemd5") =>
                Range(folded) \cup skipped = shardIds

C8_Witness ==
    /\ mode = "scatter"
    /\ env.cmd \in MergeCmds
    /\ Done
    /\ seen = <<"ok", "notok">>
    /\ shardIds = {1, 2, 3}
    /\ ok = "false"

\* C9 (as claimed): no result is folded into the accumulator before every
\* target of the round has responded or been skipped
Responded == {calls[i] : i \in 1..Len(seen)} \cup DOMAIN resp
MergeRound == mode = "scatter" /\ env.cmd \in MergeCmds \ {"filemd5"}

FileMD5Init ==
    /\ Init
    /\ env.cmd = "filemd5"
    /\ env.input = "ok"
    /\ isSharded
    /\ env.keyShape = "files_id_n"

FileMD5Answer == FileMD5Return("ok")

FileMD5Next == FileMD5CmdRun \/ FileMD5Answer

FileMD5Spec == FileMD5Init /\ [][FileMD5Next]_vars /\ WF_vars(FileMD5Next)

\* C10: with shards that answer correctly the {files_id, n} loop terminates,
\* successfully, and the response it returns is the response of the last call
\* made, the call whose reported numChunks equals the startAt it was sent
LastSent == md5.sent[Len(md5.sent)]

C10_FileMD5Terminates ==
    /\ <>Done
    /\ [](Done =>
            /\ ok = "true"
            /\ md5.out.kind = "response"
            /\ Len(md5.sent) = Len(calls)
            /\ LastSent.to = calls[Len(calls)]
            /\ md5.out.res = ShardFileMD5(LastSent.to, LastSent.cmd)
            /\ md5.out.res.numChunks = LastSent.cmd.startAt)

C10_Witness ==
    /\ Done
    /\ ok = "true"
    /\ env.numParts = 3
    /\ calls = <<1, 2, 3, 3>>
    /\ md5.out.kind = "response"
    /\ md5.out.res.numChunks = 3
    /\ md5.out.res.from = 3

\* C11 (as claimed): with three shards owning the runs [0,k), [k,m) and
\* [m,infinity) of the file, the calls visit the shards in the order of their
\* runs and each shard receives exactly one call
RunOwners(a, b, c, k, m) ==
    [i \in Parts |-> IF i < k THEN a ELSE IF i < m THEN b ELSE c]

ThreeRuns ==
    \E a, b, c \in Shards : \E k, m \in Parts :
        /\ a # b /\ b # c /\ a # c
        /\ 0 < k /\ k < m
        /\ env.chunkOwner = RunOwners(a, b, c, k, m)

RunIndex(s) == Min({i \in Parts : env.chunkOwner[i] = s})
Count(q, s) == Cardinality({i \in 1..Len(q) : q[i] = s})
HoldsPart(s) == \E i \in 0..(env.numParts - 1) : env.chunkOwner[i] = s

C11_EachShardCalledOnce ==
    (ThreeRuns /\ Done) =>
        /\ \A i, j \in 1..Len(calls) :
                i < j => RunIndex(calls[i]) < RunIndex(calls[j])
        /\ \A s \in Shards : Count(calls, s) = 1

\* C11 (amended): the calls visit the shards in the order of their runs; a
\* shard receives one call for the parts it holds and the shard owning the
\* index past the last part receives one more, the call that finds no part,
\* so the last shard is called twice when it holds parts of the file
C11_OneCallPerRunAndOneForTheEnd ==
    (ThreeRuns /\ Done) =>
        /\ \A i, j \in 1..Len(calls) :
                i < j => RunIndex(calls[i]) <= RunIndex(calls[j])
        /\ \A s \in Shards :
                Count(calls, s) = (IF HoldsPart(s) THEN 1 ELSE 0)
                    + (IF env.chunkOwner[env.numParts] = s THEN 1 ELSE 0)

C11_Witness ==
    /\ ThreeRuns
    /\ Done
    /\ env.numParts = 3
    /\ calls = <<2, 3, 1, 1>>
    /\ ok = "true"

\* C12: the first filemd5 request has startAt 0 and no md5state; every later
\* request has as startAt the numChunks of the response to the request before
\* it and carries that response's md5state as it was; startAt grows strictly
\* from request to request
ResponseTo(i) == ShardFileMD5(md5.sent[i].to, md5.sent[i].cmd)

C12_StateChained ==
    \A i \in 1..Len(md5.sent) :
        LET cmd == md5.sent[i].cmd IN
        IF i = 1
        THEN cmd.startAt = 0 /\ ~cmd.hasState
        ELSE /\ cmd.startAt = ResponseTo(i - 1).numChunks
             /\ cmd.hasState
             /\ cmd.md5state = ResponseTo(i - 1).md5state
             /\ cmd.startAt > md5.sent[i - 1].cmd.startAt

C12_Witness ==
    /\ Len(md5.sent) = 3
    /\ md5.sent[2].cmd.startAt = 1
    /\ md5.sent[2].cmd.md5state = <<0>>
    /\ md5.sent[3].cmd.startAt = 3
    /\ md5.sent[3].cmd.md5state = <<0, 1, 2>>
    /\ md5.sent[3].to # md5.sent[2].to

\* C13: the chained filemd5 is strictly sequential: at most one request of
\* the command is outstanding at any time, and a request is sent only when
\* every request before it has been answered
FileMD5Chained ==
    /\ env.cmd = "filemd5"
    /\ mode = "scatter"
    /\ env.keyShape = "files_id_n"

C13_OneOutstanding ==
    FileMD5Chained =>
        /\ Cardinality(inflight) <= 1
        /\ inflight # {} <=> pc = "md5await"
        /\ Len(md5.sent) = Len(calls)
        /\ Len(calls) = Len(seen) + (IF pc = "md5await" THEN 1 ELSE 0)
        /\ pc = "md5await" => inflight = {calls[Len(calls)]}

C13_Witness ==
    /\ FileMD5Chained
    /\ pc = "md5await"
    /\ calls = <<1, 3, 2>>
    /\ seen = <<"ok", "ok">>
    /\ inflight = {2}

\* C14: filemd5 on a collection sharded by a key that is neither {files_id:1}
\* nor {files_id:1, n:1} fails with the shard-key error and calls no shard
FileMD5OtherKey ==
    /\ env.cmd = "filemd5"
    /\ env.input = "ok"
    /\ isSharded
    /\ env.keyShape = "other"

C14_OtherKeyRejected ==
    FileMD5OtherKey =>
        /\ calls = <<>>
        /\ inflight = {}
        /\ pc \in {"start", "done"}
        /\ Done => ok = "false" /\ err = "shardkey"

C14_Witness ==
    /\ FileMD5OtherKey
    /\ Done
    /\ ok = "false"
    /\ err = "shardkey"
    /\ env.chunkOwner[0] = 2

\* C15: filemd5 on a collection sharded by {files_id:1} calls one shard, the
\* owner of the file, once; when that shard responds, its response is the
\* command's response and its ok flag the command's result
FileMD5OnePart ==
    /\ env.cmd = "filemd5"
    /\ env.input = "ok"
    /\ isSharded
    /\ env.keyShape = "files_id"

C15_OneShardAnswerRelayed ==
    FileMD5OnePart =>
        /\ pc = "start" => calls = <<>>
        /\ pc # "start" => calls = <<env.chunkOwner[0]>>
        /\ (Done /\ seen \in {<<"ok">>, <<"notok">>}) =>
            /\ md5.out.from = calls[1]
            /\ md5.out.kind = (IF seen = <<"ok">> THEN "response" ELSE "error")
            /\ ok = (IF seen = <<"ok">> THEN "true" ELSE "false")

C15_Witness ==
    /\ FileMD5OnePart
    /\ Done
    /\ calls = <<2>>
    /\ seen = <<"notok">>
    /\ ok = "false"
    /\ md5.out.from = 2

\* ------------------------------------------------- collStats, the rollup
\* the merge of CollectionStats::run over the responses of the shards, one
\* successful response per iteration of the loop. A response is the set of
\* numeric fields it carries with their values, and its indexSizes object
MaxResponses == 2

SummedFields ==
    {"count", "size", "storageSize", "numExtents", "totalIndexSize"}
IndexNames == {"_id_", "a_1"}
StatsFields == {"count", "size", "avgObjSize"}
StatsValues == 0..2
\* what a local of automatic storage holds when nothing was assigned to it
Indeterminate == {0, 5}

PartialFcns(D, R) == UNION {[F -> R] : F \in SUBSET D}

StatsResponses ==
    {[flds |-> f, indexSizes |-> x] :
        f \in {g \in PartialFcns(StatsFields, StatsValues) :
                    /\ "size" \in DOMAIN g => g["size"] = 2
                    /\ "avgObjSize" \in DOMAIN g => g["avgObjSize"] # 0},
        x \in {g \in PartialFcns(IndexNames, 1..2) :
                    /\ "_id_" \in DOMAIN g => g["_id_"] = 1
                    /\ "a_1" \in DOMAIN g => g["a_1"] = 2 /\ "_id_" \in DOMAIN g}}

EmptyCounts == [f \in {} |-> 0]

\* map<string, long long>: operator[] makes an absent key 0
At(m, k) == IF k \in DOMAIN m THEN m[k] ELSE 0

\* mutant: the field of the response replaces what was there
AddInto_Assigns(m, r, D) ==
    [k \in DOMAIN m \cup (DOMAIN r \cap D) |->
        IF k \in DOMAIN r THEN r[k] ELSE At(m, k)]

\* counts[e.fieldName()] += e.numberLong() for every field of r that is in D
AddInto(m, r, D) ==
    [k \in DOMAIN m \cup (DOMAIN r \cap D) |-> At(m, k) + At(r, k)]

CollStatsInit ==
    /\ env = [DefaultEnv("collStats") EXCEPT !.sharded = TRUE]
    /\ pc = "loop"
    /\ mode = "scatter"
    /\ attempt = 1
    /\ refreshes = 0
    /\ shardIds = {}
    /\ todo = <<>>
    /\ calls = <<>>
    /\ inflight = {}
    /\ resp = NoResp
    /\ skipped = {}
    /\ folded = <<>>
    /\ seen = <<>>
    /\ ok = "pending"
    /\ err = ""
    /\ md5 = EmptyMd5
    /\ acc = [kind |-> "collStats", got |-> <<>>, counts |-> EmptyCounts,
              indexSizes |-> EmptyCounts, unscaledCollSize |-> 0,
              out |-> NoOut]

CollStatsRest ==
    <<env, mode, attempt, refreshes, shardIds, todo, calls, inflight, resp,
      skipped, folded, seen, err, md5>>

\* mutant: the averages are added up without their weights
CollStatsFold_Unweighted(r, junkCount, junkAvg) ==
    LET shardAvgObjSize ==
            IF "avgObjSize" \in DOMAIN r.flds THEN r.flds["avgObjSize"]
            ELSE junkAvg
    IN  acc' = [acc EXCEPT
                    !.got = Append(@, r),
                    !.counts = AddInto(@, r.flds, SummedFields),
                    !.indexSizes = AddInto(@, r.indexSizes, IndexNames),
                    !.unscaledCollSize = @ + shardAvgObjSize]

\* mutant: a summed field keeps what the first response gave it
CollStatsStep_FirstWins(a, r, junkCount, junkAvg) ==
    [a EXCEPT
        !.got = Append(@, r),
        !.counts = IF a.got = <<>> THEN AddInto(@, r.flds, SummedFields)
                   ELSE @,
        !.indexSizes = AddInto(@, r.indexSizes, IndexNames),
        !.unscaledCollSize =
            @ + At(r.flds, "avgObjSize") * At(r.flds, "count")]

\* the body of the loop for one response: the summed fields and the index
\* sizes are added up; shardObjCount and shardAvgObjSize are assigned only
\* when the response carries count and avgObjSize
CollStatsStep(a, r, junkCount, junkAvg) ==
    LET shardObjCount ==
            IF "count" \in DOMAIN r.flds THEN r.flds["count"] ELSE junkCount
        shardAvgObjSize ==
            IF "avgObjSize" \in DOMAIN r.flds THEN r.flds["avgObjSize"]
            ELSE junkAvg
    IN  [a EXCEPT
            !.got = Append(@, r),
            !.counts = AddInto(@, r.flds, SummedFields),
            !.indexSizes = AddInto(@, r.indexSizes, IndexNames),
            !.unscaledCollSize = @ + shardAvgObjSize * shardObjCount]

CollStatsFold(r, junkCount, junkAvg) ==
    acc' = CollStatsStep(acc, r, junkCount, junkAvg)

CollStatsLoop ==
    /\ pc = "loop"
    /\ acc.kind = "collStats"
    /\ Len(acc.got) < MaxResponses
    /\ \E r \in StatsResponses : \E jc, ja \in Indeterminate :
        /\ "count" \in DOMAIN r.flds => jc = 0
        /\ "avgObjSize" \in DOMAIN r.flds => ja = 0
        /\ CollStatsFold(r, jc, ja)
    /\ UNCHANGED <<pc, ok>>
    /\ UNCHANGED CollStatsRest

\* after the loop: the sums are appended as they are, and avgObjSize is the
\* quotient of unscaledCollSize and counts["count"], kept here as the pair of
\* the two numbers that are divided
CollStatsResultOf(a) ==
    [kind |-> "collStats",
     counts |-> a.counts,
     indexSizes |-> a.indexSizes,
     avgObjSize |-> IF At(a.counts, "count") > 0
                    THEN [num |-> a.unscaledCollSize,
                          den |-> At(a.counts, "count")]
                    ELSE [num |-> 0, den |-> 1]]

CollStatsResult == CollStatsResultOf(acc)

CollStatsFinish ==
    /\ pc = "loop"
    /\ acc.kind = "collStats"
    /\ acc' = [acc EXCEPT !.out = CollStatsResult]
    /\ pc' = "done"
    /\ ok' = "true"
    /\ UNCHANGED CollStatsRest

CollStatsNext == CollStatsLoop \/ CollStatsFinish

CollStatsSpec == CollStatsInit /\ [][CollStatsNext]_vars

\* C16: in the merged collStats response every summed field (count, size,
\* storageSize, numExtents, totalIndexSize) and every entry of indexSizes is
\* the sum of that field over the responses of the shards, and the fields
\* present are those some shard reported
RECURSIVE SumSeq(_)
SumSeq(q) == IF q = <<>> THEN 0 ELSE Head(q) + SumSeq(Tail(q))

FieldSum(f) == SumSeq([i \in 1..Len(acc.got) |-> At(acc.got[i].flds, f)])
IndexSum(x) ==
    SumSeq([i \in 1..Len(acc.got) |-> At(acc.got[i].indexSizes, x)])
Reported(D) ==
    {f \in D : \E i \in 1..Len(acc.got) : f \in DOMAIN acc.got[i].flds}
ReportedIndexes ==
    {x \in IndexNames :
        \E i \in 1..Len(acc.got) : x \in DOMAIN acc.got[i].indexSizes}
CollStatsDone == pc = "done" /\ acc.kind = "collStats"

C16_FieldsAreSums ==
    CollStatsDone =>
        /\ ok = "true"
        /\ DOMAIN acc.out.counts = Reported(SummedFields)
        /\ \A f \in DOMAIN acc.out.counts : acc.out.counts[f] = FieldSum(f)
        /\ DOMAIN acc.out.indexSizes = ReportedIndexes
        /\ \A x \in DOMAIN acc.out.indexSizes :
                acc.out.indexSizes[x] = IndexSum(x)

C16_Witness ==
    /\ CollStatsDone
    /\ Len(acc.got) = 2
    /\ acc.got[1].flds = [f \in {"count", "size"} |-> 2]
    /\ "a_1" \notin DOMAIN acc.got[1].indexSizes
    /\ acc.out.counts = [f \in {"count", "size"} |-> IF f = "count" THEN 3 ELSE 4]
    /\ acc.out.indexSizes = [x \in IndexNames |-> 2]

\* C17: when every response carries count and, unless its count is 0,
\* avgObjSize, the merged avgObjSize is the sum of avgObjSize times count over
\* the shards divided by the sum of the counts (not the mean of the shards'
\* averages), and it is 0 when the summed count is 0
WeightedSize ==
    SumSeq([i \in 1..Len(acc.got) |->
                At(acc.got[i].flds, "avgObjSize") * acc.got[i].flds["count"]])
AllCarryBoth ==
    \A i \in 1..Len(acc.got) :
        /\ "count" \in DOMAIN acc.got[i].flds
        /\ acc.got[i].flds["count"] > 0 =>
                "avgObjSize" \in DOMAIN acc.got[i].flds

C17_AvgObjSizeWeighted ==
    (CollStatsDone /\ AllCarryBoth) =>
        IF FieldSum("count") > 0
        THEN /\ acc.out.avgObjSize.num = WeightedSize
             /\ acc.out.avgObjSize.den = FieldSum("count")
        ELSE acc.out.avgObjSize = [num |-> 0, den |-> 1]

C17_Witness ==
    /\ CollStatsDone
    /\ AllCarryBoth
    /\ Len(acc.got) = 2
    /\ At(acc.got[1].flds, "avgObjSize") = 1
    /\ At(acc.got[2].flds, "avgObjSize") = 2
    /\ acc.out.avgObjSize = [num |-> 5, den |-> 3]

\* ------------------------------------------------- distinct, the dedup
\* the merge of DistinctCmd::run over the values arrays of the shards. The
\* comparator is the query's collator or, without one, the collection's
\* default: "simple" orders the values by their bytes, "ci" is a collation
\* that ignores case
MaxValues == 2

DistinctValues == {"B", "a", "b"}
Collators == {"simple", "ci"}

\* the position of a value in the comparator's order; two values are equal
\* under the comparator when their positions are equal
bsonCmp(v, collator) ==
    IF collator = "simple"
    THEN CASE v = "B" -> 1 [] v = "a" -> 2 [] v = "b" -> 3
    ELSE CASE v = "a" -> 1 [] v \in {"B", "b"} -> 2

SeqsUpTo(S, n) == UNION {[1..k -> S] : k \in 0..n}
ValueLists == SeqsUpTo(DistinctValues, MaxValues)

\* mutant: the set compares the values themselves, without the collator
AllInsert_NoCollator(all, v, collator) ==
    IF \E i \in 1..Len(all) : all[i] = v
    THEN all
    ELSE LET below == SelectSeq(all, LAMBDA x :
                            bsonCmp(x, "simple") < bsonCmp(v, "simple"))
             above == SelectSeq(all, LAMBDA x :
                            bsonCmp(x, "simple") > bsonCmp(v, "simple"))
         IN below \o <<v>> \o above

\* mutant: a new value goes to the end, so the values come out as they arrived
AllInsert_ArrivalOrder(all, v, collator) ==
    IF \E i \in 1..Len(all) : bsonCmp(all[i], collator) = bsonCmp(v, collator)
    THEN all
    ELSE Append(all, v)

\* BSONObjSet::insert: the set is kept in the comparator's order, and a value
\* equal to one already in the set is not inserted
AllInsert(all, v, collator) ==
    IF \E i \in 1..Len(all) : bsonCmp(all[i], collator) = bsonCmp(v, collator)
    THEN all
    ELSE LET below == SelectSeq(all, LAMBDA x :
                            bsonCmp(x, collator) < bsonCmp(v, collator))
             above == SelectSeq(all, LAMBDA x :
                            bsonCmp(x, collator) > bsonCmp(v, collator))
         IN below \o <<v>> \o above

\* while (it.more()) all.insert(...) over the values of one response
RECURSIVE InsertEach(_, _, _)
InsertEach(all, values, collator) ==
    IF values = <<>> THEN all
    ELSE InsertEach(AllInsert(all, Head(values), collator), Tail(values),
                    collator)

DistinctInit ==
    /\ env = [DefaultEnv("distinct") EXCEPT !.sharded = TRUE]
    /\ pc = "loop"
    /\ mode = "scatter"
    /\ attempt = 1
    /\ refreshes = 0
    /\ shardIds = {}
    /\ todo = <<>>
    /\ calls = <<>>
    /\ inflight = {}
    /\ resp = NoResp
    /\ skipped = {}
    /\ folded = <<>>
    /\ seen = <<>>
    /\ ok = "pending"
    /\ err = ""
    /\ md5 = EmptyMd5
    /\ \E c \in Collators :
        acc = [kind |-> "distinct", collator |-> c, got |-> <<>>,
               all |-> <<>>, out |-> NoOut]

\* the body of the loop for one ok response
DistinctFold ==
    /\ pc = "loop"
    /\ acc.kind = "distinct"
    /\ Len(acc.got) < MaxResponses
    /\ \E values \in ValueLists :
        acc' = [acc EXCEPT !.got = Append(@, values),
                           !.all = InsertEach(@, values, acc.collator)]
    /\ UNCHANGED <<pc, ok>>
    /\ UNCHANGED CollStatsRest

\* after the loop: the set is written out in its iteration order
DistinctFinish ==
    /\ pc = "loop"
    /\ acc.kind = "distinct"
    /\ acc' = [acc EXCEPT !.out = [kind |-> "distinct", values |-> acc.all]]
    /\ pc' = "done"
    /\ ok' = "true"
    /\ UNCHANGED CollStatsRest

DistinctNext == DistinctFold \/ DistinctFinish

DistinctSpec == DistinctInit /\ [][DistinctNext]_vars

\* C18: the merged values array of a sharded distinct holds one
\* representative, a value some shard reported, of every class of values
\* equal under the comparator that occurs in a shard's list, and no two of
\* its entries are equal under the comparator
ArrivedValues ==
    UNION {Range(acc.got[i]) : i \in 1..Len(acc.got)}
ClassesOf(S) == {bsonCmp(v, acc.collator) : v \in S}
DistinctDone == pc = "done" /\ acc.kind = "distinct"

C18_OnePerClass ==
    DistinctDone =>
        LET values == acc.out.values IN
        /\ ok = "true"
        /\ Range(values) \subseteq ArrivedValues
        /\ ClassesOf(Range(values)) = ClassesOf(ArrivedValues)
        /\ \A i, j \in 1..Len(values) :
                i # j => bsonCmp(values[i], acc.collator)
                            # bsonCmp(values[j], acc.collator)

C18_Witness ==
    /\ DistinctDone
    /\ acc.collator = "ci"
    /\ acc.got = << <<"b", "a">>, <<"B", "b">> >>
    /\ acc.out.values = <<"a", "b">>

\* C19: the merged values array is in the comparator's order, and that order
\* is a function of the set of classes that arrived alone: it is the same
\* whatever the order of the shards and of the values in their lists
C19_ComparatorOrder ==
    DistinctDone =>
        LET values == acc.out.values IN
        /\ \A i, j \in 1..Len(values) :
                i < j => bsonCmp(values[i], acc.collator)
                            < bsonCmp(values[j], acc.collator)
        /\ [i \in 1..Len(values) |-> bsonCmp(values[i], acc.collator)]
                = SetToSeq(ClassesOf(ArrivedValues))

C19_Witness ==
    /\ DistinctDone
    /\ acc.collator = "simple"
    /\ acc.got = << <<"b">>, <<"a", "B">> >>
    /\ acc.out.values = <<"B", "a", "b">>

\* ------------------------------------------------- geoNear, the merge
\* the merge of Geo2dFindNearCmd::run over the results arrays of the shards.
\* A candidate is its distance and the document it stands for (named by the
\* response and the position it came in)
Distances == 1..2
DefaultLimit == 100
NoNumber == [isNumber |-> FALSE, v |-> 0]
Number(n) == [isNumber |-> TRUE, v |-> n]
NumArgs == {NoNumber, Number(1), Number(2)}
LimitArgs == {NoNumber, Number(-1), Number(0), Number(1), Number(3)}

\* mutant: the smaller of the two arguments when both are numbers
ParseLimit_MinOfBoth(num, limit) ==
    IF num.isNumber /\ limit.isNumber THEN Min({num.v, limit.v})
    ELSE IF num.isNumber THEN num.v
    ELSE IF limit.isNumber THEN limit.v
    ELSE DefaultLimit

\* limitName is "num" when num is a number and "limit" otherwise; the limit
\* is that argument when it is a number and 100 when it is not
ParseLimit(num, limit) ==
    LET named == IF num.isNumber THEN num ELSE limit IN
    IF named.isNumber THEN named.v ELSE DefaultLimit

DistanceLists == SeqsUpTo(Distances, MaxValues)

\* the results array of the k-th response read as candidates
Candidates(k, dists) ==
    [i \in 1..Len(dists) |-> [dis |-> dists[i], doc |-> <<k, i>>]]

\* mutant: a candidate goes to the end, whatever its distance
MultimapInsert_AtEnd(results, c) == Append(results, c)

\* mutant: a candidate goes before those of the same distance
MultimapInsert_BeforeEqual(results, c) ==
    SelectSeq(results, LAMBDA x : x.dis < c.dis) \o <<c>>
        \o SelectSeq(results, LAMBDA x : x.dis >= c.dis)

\* multimap<double, BSONObj>::insert: the map is kept ascending by distance,
\* and a candidate goes after those of the same distance
MultimapInsert(results, c) ==
    SelectSeq(results, LAMBDA x : x.dis <= c.dis) \o <<c>>
        \o SelectSeq(results, LAMBDA x : x.dis > c.dis)

RECURSIVE InsertAll(_, _)
InsertAll(results, cands) ==
    IF cands = <<>> THEN results
    ELSE InsertAll(MultimapInsert(results, Head(cands)), Tail(cands))

Geo2dInit ==
    /\ env = [DefaultEnv("geoNear") EXCEPT !.sharded = TRUE]
    /\ pc = "join"
    /\ mode = "scatter"
    /\ attempt = 1
    /\ refreshes = 0
    /\ shardIds = {}
    /\ todo = <<>>
    /\ calls = <<>>
    /\ inflight = {}
    /\ resp = NoResp
    /\ skipped = {}
    /\ folded = <<>>
    /\ seen = <<>>
    /\ ok = "pending"
    /\ err = ""
    /\ md5 = EmptyMd5
    /\ \E num \in NumArgs, lim \in LimitArgs :
        acc = [kind |-> "geoNear", num |-> num, limitArg |-> lim,
               limit |-> ParseLimit(num, lim), got |-> <<>>,
               results |-> <<>>, out |-> NoOut]

\* the body of the join loop for one ok result
Geo2dFold ==
    /\ pc = "join"
    /\ Len(acc.got) < MaxResponses
    /\ \E dists \in DistanceLists :
        acc' = [acc EXCEPT
                    !.got = Append(@, dists),
                    !.results = InsertAll(@, Candidates(Len(acc.got) + 1,
                                                        dists))]
    /\ UNCHANGED <<pc, ok>>
    /\ UNCHANGED CollStatsRest

\* after the loop: the map is written out from its start while fewer than
\* limit candidates were written
Geo2dResultsOf(limit, results) ==
    LET n == IF limit <= 0 THEN 0
             ELSE IF limit < Len(results) THEN limit
             ELSE Len(results)
    IN SubSeq(results, 1, n)

Geo2dResults == Geo2dResultsOf(acc.limit, acc.results)

Geo2dFinish ==
    /\ pc = "join"
    /\ acc' = [acc EXCEPT !.out = [kind |-> "geoNear",
                                   results |-> Geo2dResults]]
    /\ pc' = "done"
    /\ ok' = "true"
    /\ UNCHANGED CollStatsRest

Geo2dNext == Geo2dFold \/ Geo2dFinish

Geo2dSpec == Geo2dInit /\ [][Geo2dNext]_vars

\* C20: the merged results array of a sharded geoNear is ascending by
\* distance, holds candidates the shards returned, each once, leaves out only
\* candidates that are no nearer than every one it holds, and has as many
\* entries as the limit allows: the smaller of the limit (when it is not
\* negative) and the number of candidates of all the shards
AllCandidates ==
    UNION {Range(Candidates(k, acc.got[k])) : k \in 1..Len(acc.got)}
TotalCandidates == SumSeq([k \in 1..Len(acc.got) |-> Len(acc.got[k])])
Geo2dDone == pc = "done" /\ acc.kind = "geoNear"

C20_SortedPrefixOfLimit ==
    Geo2dDone =>
        LET out == acc.out.results IN
        /\ ok = "true"
        /\ \A i, j \in 1..Len(out) : i < j => out[i].dis <= out[j].dis
        /\ Range(out) \subseteq AllCandidates
        /\ Cardinality(Range(out)) = Len(out)
        /\ \A c \in AllCandidates \ Range(out) :
                \A i \in 1..Len(out) : out[i].dis <= c.dis
        /\ acc.limit >= 0 =>
                Len(out) = Min({acc.limit, TotalCandidates})
        /\ acc.limit < 0 => out = <<>>

C20_Witness ==
    /\ Geo2dDone
    /\ acc.limit = 3
    /\ acc.got = << <<2, 2>>, <<1, 2>> >>
    /\ Len(acc.out.results) = 3
    /\ acc.out.results[1] = [dis |-> 1, doc |-> <<2, 1>>]
    /\ acc.out.results[3] = [dis |-> 2, doc |-> <<1, 2>>]

\* C21 as stated: the limit of a sharded geoNear is 100 with neither
\* argument numeric, the one given when one is, and the smaller of num and
\* limit when both are numeric
ClaimedLimit ==
    IF acc.num.isNumber /\ acc.limitArg.isNumber
    THEN Min({acc.num.v, acc.limitArg.v})
    ELSE IF acc.num.isNumber THEN acc.num.v
    ELSE IF acc.limitArg.isNumber THEN acc.limitArg.v
    ELSE DefaultLimit

C21_MinOfBoth ==
    Geo2dDone /\ ClaimedLimit >= 0 =>
        Len(acc.out.results) = Min({ClaimedLimit, TotalCandidates})

\* C21: the limit of a sharded geoNear is num when num is numeric, whatever
\* limit is; limit when only limit is numeric; and 100 when neither is. The
\* results array has that many candidates, or all of them when there are
\* fewer
NamedLimit ==
    IF acc.num.isNumber THEN acc.num.v
    ELSE IF acc.limitArg.isNumber THEN acc.limitArg.v
    ELSE DefaultLimit

C21_NumOverridesLimit ==
    Geo2dDone =>
        /\ acc.limit = NamedLimit
        /\ NamedLimit >= 0 =>
                Len(acc.out.results) = Min({NamedLimit, TotalCandidates})

C21_Witness ==
    /\ Geo2dDone
    /\ acc.num = Number(2)
    /\ acc.limitArg = Number(1)
    /\ TotalCandidates = 4
    /\ Len(acc.out.results) = 2

\* ------------------------------------------------- validate, the merge
\* the loop of ValidateCmd::run over the results Strategy::commandOp returned,
\* one result for each targeted shard. A result is what the loop reads of
\* it: valid, errmsg, and the ok and code the code helper reads
Absent == "absent"
ErrMsgs == {"e1", "e2"}
ErrCodes == {11, 13}
ValidateResults ==
    {r \in [valid : {"true", "false", Absent}, ok : BOOLEAN,
            errmsg : ErrMsgs \cup {Absent}, code : ErrCodes \cup {0}] :
        /\ ~r.ok => r.errmsg # Absent /\ r.valid = Absent
        /\ r.ok => r.code = 0 /\ r.errmsg # "e2"}

\* BSONElement::toString: the text names the field before its value
ElementToString(name, v) == [fieldName |-> name, value |-> v]

\* mutant: valid is the valid of the result at hand
ValidateStep_LastValid(a, shardName, result) ==
    [a EXCEPT
        !.got = Append(@, [shard |-> shardName, result |-> result]),
        !.isValid = result.valid = "true",
        !.errmsg = IF result.errmsg # Absent
                   THEN <<ElementToString("errmsg", result.errmsg)>> ELSE @,
        !.errored = @ \/ result.errmsg # Absent,
        !.raw = Append(@, <<shardName, result>>)]

\* mutant: the errmsg already set is kept
ValidateStep_KeepsErrmsg(a, shardName, result) ==
    [a EXCEPT
        !.got = Append(@, [shard |-> shardName, result |-> result]),
        !.isValid = @ /\ result.valid = "true",
        !.errmsg = IF result.errmsg # Absent /\ ~a.errored
                   THEN <<ElementToString("errmsg", result.errmsg)>> ELSE @,
        !.errored = @ \/ result.errmsg # Absent,
        !.raw = Append(@, <<shardName, result>>)]

\* the body of the loop for one result: valid that is not true clears
\* isValid, an errmsg is assigned to the command's errmsg and sets errored,
\* and the result is appended to raw under the shard's name
ValidateStep(a, shardName, result) ==
    [a EXCEPT
        !.got = Append(@, [shard |-> shardName, result |-> result]),
        !.isValid = @ /\ result.valid = "true",
        !.errmsg = IF result.errmsg # Absent
                   THEN <<ElementToString("errmsg", result.errmsg)>> ELSE @,
        !.errored = @ \/ result.errmsg # Absent,
        !.raw = Append(@, <<shardName, result>>)]

\* the code every result that is not ok carries, 0 when there is no such
\* result or two of them carry different codes (a result without a code
\* counts as code 0)
getUniqueCodeFromCommandResults(results) ==
    LET codes == {results[i].result.code :
                    i \in {j \in 1..Len(results) : ~results[j].result.ok}}
    IN IF Cardinality(codes) = 1 THEN CHOOSE c \in codes : TRUE ELSE 0

\* mutant: the code is written whatever it is
ValidateOutput_AlwaysCode(a) ==
    [kind |-> "validate", raw |-> a.raw, valid |-> a.isValid,
     code |-> <<getUniqueCodeFromCommandResults(a.got)>>,
     errmsg |-> a.errmsg]

\* after the loop: raw is closed, valid is written, and the code is written
\* when it is not 0
ValidateOutput(a) ==
    LET code == getUniqueCodeFromCommandResults(a.got) IN
    [kind |-> "validate", raw |-> a.raw, valid |-> a.isValid,
     code |-> IF code # 0 THEN <<code>> ELSE <<>>,
     errmsg |-> a.errmsg]

ValidateInit ==
    /\ env = [DefaultEnv("validate") EXCEPT !.sharded = TRUE]
    /\ pc = "loop"
    /\ mode = "scatter"
    /\ attempt = 1
    /\ refreshes = 0
    /\ shardIds = {}
    /\ todo = <<>>
    /\ calls = <<>>
    /\ inflight = {}
    /\ resp = NoResp
    /\ skipped = {}
    /\ folded = <<>>
    /\ seen = <<>>
    /\ ok = "pending"
    /\ err = ""
    /\ md5 = EmptyMd5
    /\ acc = [kind |-> "validate", got |-> <<>>, isValid |-> TRUE,
              errored |-> FALSE, errmsg |-> <<>>, raw |-> <<>>,
              out |-> NoOut]

ValidateFold ==
    /\ pc = "loop"
    /\ acc.kind = "validate"
    /\ Len(acc.got) < MaxResponses
    /\ \E s \in Shards \ {acc.got[i].shard : i \in 1..Len(acc.got)} :
       \E r \in ValidateResults :
            acc' = ValidateStep(acc, s, r)
    /\ UNCHANGED <<pc, ok>>
    /\ UNCHANGED CollStatsRest

\* mutant: the command fails as well when valid is false
ValidateFinish_FailsWhenInvalid ==
    /\ pc = "loop"
    /\ acc.kind = "validate"
    /\ acc' = [acc EXCEPT !.out = ValidateOutput(acc)]
    /\ pc' = "done"
    /\ ok' = IF acc.errored \/ ~acc.isValid THEN "false" ELSE "true"
    /\ UNCHANGED CollStatsRest

\* the command fails when a result carried an errmsg
ValidateFinish ==
    /\ pc = "loop"
    /\ acc.kind = "validate"
    /\ acc' = [acc EXCEPT !.out = ValidateOutput(acc)]
    /\ pc' = "done"
    /\ ok' = IF acc.errored THEN "false" ELSE "true"
    /\ UNCHANGED CollStatsRest

ValidateNext == ValidateFold \/ ValidateFinish

ValidateSpec == ValidateInit /\ [][ValidateNext]_vars

ValidateDone == pc = "done" /\ acc.kind = "validate"

\* C22: the valid of a sharded validate is true exactly when every shard
\* result has a true valid, and raw holds every shard result, once, under
\* the id of its shard
C22_ValidIsAndRawHoldsAll ==
    ValidateDone =>
        /\ acc.out.valid =
                (\A i \in 1..Len(acc.got) : acc.got[i].result.valid = "true")
        /\ Len(acc.out.raw) = Len(acc.got)
        /\ \A i \in 1..Len(acc.got) :
                acc.out.raw[i] = <<acc.got[i].shard, acc.got[i].result>>
        /\ \A i, j \in 1..Len(acc.out.raw) :
                acc.out.raw[i][1] = acc.out.raw[j][1] => i = j

C22_Witness ==
    /\ ValidateDone
    /\ Len(acc.got) = 2
    /\ acc.got[1].result.valid = "false"
    /\ acc.got[2].result.valid = "true"
    /\ acc.out.valid = FALSE
    /\ {acc.out.raw[i][1] : i \in 1..2} = {acc.got[1].shard, acc.got[2].shard}

\* the results that carry an errmsg, by their place in the results
WithErrmsg == {i \in 1..Len(acc.got) : acc.got[i].result.errmsg # Absent}
ErrmsgOf(i) == <<ElementToString("errmsg", acc.got[i].result.errmsg)>>

Erroring == {i \in 1..Len(acc.got) : ~acc.got[i].result.ok}

\* C24: a code is at the top level of the response of a sharded validate
\* only if every result that reports an error carries that code, and then
\* once; when the erroring results carry different codes there is none
C24_CodeOnlyWhenAgreed ==
    ValidateDone =>
        /\ Len(acc.out.code) <= 1
        /\ \A c \in Range(acc.out.code) :
                /\ c # 0
                /\ Erroring # {}
                /\ \A i \in Erroring : acc.got[i].result.code = c
        /\ (\E i, j \in Erroring :
                acc.got[i].result.code # acc.got[j].result.code)
             => acc.out.code = <<>>

C24_Witness ==
    /\ ValidateDone
    /\ Len(acc.got) = 2
    /\ acc.got[1].result.code = 11
    /\ acc.got[2].result.code = 13
    /\ acc.out.code = <<>>
    /\ ok = "false"

C24_WitnessAgreed ==
    /\ ValidateDone
    /\ Len(acc.got) = 2
    /\ acc.got[1].result.code = 11
    /\ acc.got[2].result.code = 11
    /\ acc.out.code = <<11>>

\* ------------------------------------------------- the fields of a reply
\* what each command does with the fields of a shard's reply that are not
\* its data: ok, errmsg, code and writeConcernError. An element of the
\* cluster response is its name, the shard whose reply it came from, and
\* whether it is the shard-tagged form the router builds
ReplyFamilies ==
    {"passthrough", "collStats", "dataSize", "distinct", "geoNear",
     "validate", "filemd5"}
ReplyFields == {"errmsg", "code", "writeConcernError"}
ReplyFieldOrder ==
    <<"sharded", "ok", "n", "errmsg", "code", "primary", "writeConcernError">>
Replies ==
    {r \in [shard : Shards, ok : BOOLEAN, flds : SUBSET ReplyFields] :
        /\ ~r.ok => "errmsg" \in r.flds
        /\ r.ok => r.flds \subseteq {"writeConcernError"}}

ReplyElements(r) ==
    LET names == SelectSeq(ReplyFieldOrder,
                           LAMBDA f : f = "ok" \/ f \in r.flds)
    IN [i \in 1..Len(names) |->
            [name |-> names[i], shard |-> r.shard, tagged |-> FALSE]]

\* BSONObjBuilder::appendElements
appendElements(result, elems) == result \o elems

\* BSONObjBuilder::appendElementsUnique: the elements whose name the
\* builder does not hold yet
appendElementsUnique(result, elems) ==
    LET have == {result[i].name : i \in 1..Len(result)} IN
    result \o SelectSeq(elems, LAMBDA e : e.name \notin have)

\* appendWriteConcernErrorToCmdResponse: the writeConcernError with the
\* shard's id added to it
appendWriteConcernErrorToCmdResponse(shardId, result) ==
    Append(result, [name |-> "writeConcernError", shard |-> shardId,
                    tagged |-> TRUE])

Returned(b) == IF b THEN "true" ELSE "false"

\* mutant: the reply is copied with appendElements and nothing is built
PassthroughReply_CopiesAll(a, r) ==
    [a EXCEPT !.got = Append(@, r),
              !.result = appendElements(@, ReplyElements(r)),
              !.returned = Returned(r.ok)]

\* _passthrough after the call: the shard-tagged writeConcernError first,
\* then the elements of the reply the response does not hold
PassthroughReply(a, r) ==
    LET lifted == IF "writeConcernError" \in r.flds
                  THEN appendWriteConcernErrorToCmdResponse(r.shard, a.result)
                  ELSE a.result
    IN [a EXCEPT !.got = Append(@, r),
                 !.result = appendElementsUnique(lifted, ReplyElements(r)),
                 !.returned = Returned(r.ok)]

\* mutant: the reply of every shard is copied, failed or not
AppendAllReply_Always(a, r) ==
    [a EXCEPT !.got = Append(@, r),
              !.result = appendElements(@, ReplyElements(r)),
              !.returned = IF r.ok THEN @ ELSE "false"]

\* DataSizeCmd::run and DistinctCmd::run after a call: a failed reply is
\* copied whole and ends the command, of any other only the data is read
AppendAllReply(a, r) ==
    IF ~r.ok
    THEN [a EXCEPT !.got = Append(@, r),
                   !.result = appendElements(@, ReplyElements(r)),
                   !.returned = "false"]
    ELSE [a EXCEPT !.got = Append(@, r)]

CodeOf(r) ==
    SelectSeq(ReplyElements(r), LAMBDA e : e.name = "code")

\* Geo2dFindNearCmd::run after a join: of a failed reply the errmsg and
\* the code are taken, of any other the data
Geo2dReply(a, r) ==
    IF ~r.ok
    THEN [a EXCEPT !.got = Append(@, r),
                   !.errmsg = <<[shard |-> r.shard, whole |-> FALSE]>>,
                   !.result = appendElements(@, CodeOf(r)),
                   !.returned = "false"]
    ELSE [a EXCEPT !.got = Append(@, r)]

\* CollectionStats::run after a call: of a failed reply the code is taken
\* and the reply's text goes into errmsg; any other is put under shards
CollStatsReply(a, r) ==
    IF ~r.ok
    THEN [a EXCEPT !.got = Append(@, r),
                   !.errmsg = <<[shard |-> r.shard, whole |-> TRUE]>>,
                   !.result = appendElements(@, CodeOf(r)),
                   !.returned = "false"]
    ELSE [a EXCEPT !.got = Append(@, r),
                   !.nested = Append(@, <<r.shard, r>>)]

\* ValidateCmd::run for one result: it is put under raw, its errmsg is
\* the command's
ValidateReply(a, r) ==
    [a EXCEPT !.got = Append(@, r),
              !.errmsg = IF "errmsg" \in r.flds
                         THEN <<[shard |-> r.shard, whole |-> FALSE]>> ELSE @,
              !.nested = Append(@, <<r.shard, r>>)]

\* FileMD5Cmd::run after a call: a failed reply is copied but for its
\* errmsg, the reply that ends the file is copied whole, and of any other
\* only md5state and numChunks are read
FileMD5Reply(a, r, last) ==
    IF ~r.ok
    THEN [a EXCEPT !.got = Append(@, r),
                   !.errmsg = <<[shard |-> r.shard, whole |-> FALSE]>>,
                   !.result = appendElements(@,
                                SelectSeq(ReplyElements(r),
                                          LAMBDA e : e.name # "errmsg")),
                   !.returned = "false"]
    ELSE IF last
    THEN [a EXCEPT !.got = Append(@, r),
                   !.result = appendElements(@, ReplyElements(r)),
                   !.returned = "true"]
    ELSE [a EXCEPT !.got = Append(@, r)]

ReplyInit ==
    /\ pc = "reply"
    /\ mode = "scatter"
    /\ attempt = 1
    /\ refreshes = 0
    /\ shardIds = {}
    /\ todo = <<>>
    /\ calls = <<>>
    /\ inflight = {}
    /\ resp = NoResp
    /\ skipped = {}
    /\ folded = <<>>
    /\ seen = <<>>
    /\ ok = "pending"
    /\ err = ""
    /\ md5 = EmptyMd5
    /\ \E f \in ReplyFamilies :
        /\ env = [DefaultEnv(f) EXCEPT !.sharded = f # "passthrough"]
        /\ acc = [kind |-> "reply", family |-> f, got |-> <<>>,
                  result |-> <<>>, nested |-> <<>>, errmsg |-> <<>>,
                  returned |-> ""]

ReplyOpen(f) ==
    /\ pc = "reply"
    /\ acc.kind = "reply"
    /\ acc.family \in f
    /\ acc.returned = ""
    /\ Len(acc.got) < MaxResponses

FreshReplies == {r \in Replies : \A i \in 1..Len(acc.got) : acc.got[i].shard # r.shard}

\* the command returns what the step decided
ReplyReturn ==
    /\ pc' = IF acc'.returned = "" THEN pc ELSE "done"
    /\ ok' = IF acc'.returned = "" THEN ok ELSE acc'.returned
    /\ UNCHANGED CollStatsRest

ReplyPassthrough ==
    /\ ReplyOpen({"passthrough"})
    /\ \E r \in Replies : acc' = PassthroughReply(acc, r)
    /\ ReplyReturn

ReplyAppendAll ==
    /\ ReplyOpen({"dataSize", "distinct"})
    /\ \E r \in FreshReplies : acc' = AppendAllReply(acc, r)
    /\ ReplyReturn

ReplyGeo2d ==
    /\ ReplyOpen({"geoNear"})
    /\ \E r \in FreshReplies : acc' = Geo2dReply(acc, r)
    /\ ReplyReturn

ReplyCollStats ==
    /\ ReplyOpen({"collStats"})
    /\ \E r \in FreshReplies : acc' = CollStatsReply(acc, r)
    /\ ReplyReturn

ReplyValidate ==
    /\ ReplyOpen({"validate"})
    /\ \E r \in FreshReplies : acc' = ValidateReply(acc, r)
    /\ ReplyReturn

ReplyFileMD5 ==
    /\ ReplyOpen({"filemd5"})
    /\ \E r \in Replies, last \in BOOLEAN : acc' = FileMD5Reply(acc, r, last)
    /\ ReplyReturn

\* the end of a loop over the shards: the command has its answer, which is
\* a failure for validate when a result carried an errmsg
ReplyLoopEnd ==
    /\ pc = "reply"
    /\ acc.kind = "reply"
    /\ acc.family \in {"collStats", "dataSize", "distinct", "geoNear",
                        "validate"}
    /\ acc.returned = ""
    /\ acc' = [acc EXCEPT !.returned = Returned(acc.errmsg = <<>>)]
    /\ ReplyReturn

ReplyNext ==
    \/ ReplyPassthrough
    \/ ReplyAppendAll
    \/ ReplyGeo2d
    \/ ReplyCollStats
    \/ ReplyValidate
    \/ ReplyFileMD5
    \/ ReplyLoopEnd

ReplySpec == ReplyInit /\ [][ReplyNext]_vars

ReplyDone(f) == pc = "done" /\ acc.kind = "reply" /\ acc.family \in f

\* the writeConcernError elements at the top level of the response
TopLevelWCE ==
    SelectSeq(acc.result, LAMBDA e : e.name = "writeConcernError")
HasWCE(r) == "writeConcernError" \in r.flds

\* C25: when the reply to a passthrough holds a writeConcernError the
\* response holds exactly one, the shard-tagged one of the replying shard,
\* and no raw copy; when it holds none the response holds none
C25_OneTaggedWriteConcernError ==
    ReplyDone({"passthrough"}) =>
        /\ Len(acc.got) = 1
        /\ HasWCE(acc.got[1]) =>
                TopLevelWCE = <<[name |-> "writeConcernError",
                                 shard |-> acc.got[1].shard,
                                 tagged |-> TRUE]>>
        /\ ~HasWCE(acc.got[1]) => TopLevelWCE = <<>>

C25_Witness ==
    /\ ReplyDone({"passthrough"})
    /\ acc.got[1].ok
    /\ HasWCE(acc.got[1])
    /\ Len(TopLevelWCE) = 1
    /\ TopLevelWCE[1].tagged
    /\ Len(acc.result) = 2

MergeFamilies == ReplyFamilies \ {"passthrough"}
WithWCE == {i \in 1..Len(acc.got) : HasWCE(acc.got[i])}

\* C26 as stated: in every merge family, each consumed reply that holds a
\* writeConcernError has exactly one element at the top level of the
\* response, the shard-tagged one
C26_LiftedInEveryFamily ==
    ReplyDone(MergeFamilies) =>
        \A i \in WithWCE :
            SelectSeq(TopLevelWCE,
                      LAMBDA e : e.shard = acc.got[i].shard)
                = <<[name |-> "writeConcernError",
                     shard |-> acc.got[i].shard, tagged |-> TRUE]>>

\* C26: no merge family builds the shard-tagged writeConcernError. The
\* writeConcernError of a reply that is ok and does not end the command is
\* not at the top level of the response (collStats and validate keep the
\* whole reply under the shard's id in shards and raw); geoNear and
\* collStats put none there at all; dataSize, distinct and filemd5 copy the
\* reply that ends the command by a failure, and filemd5 the reply that
\* ends the file, so that reply's writeConcernError is there once, as the
\* shard sent it
C26_NotLiftedInMergeFamilies ==
    ReplyDone(MergeFamilies) =>
        LET n == Len(acc.got)
            ending == acc.family \in {"dataSize", "distinct", "filemd5"}
                      /\ n > 0
                      /\ (~acc.got[n].ok \/ acc.family = "filemd5")
                      /\ HasWCE(acc.got[n])
        IN
        /\ \A i \in 1..Len(TopLevelWCE) : ~TopLevelWCE[i].tagged
        /\ ending =>
                TopLevelWCE = <<[name |-> "writeConcernError",
                                 shard |-> acc.got[n].shard,
                                 tagged |-> FALSE]>>
        /\ ~ending => TopLevelWCE = <<>>
        /\ acc.family \in {"collStats", "validate"} =>
                \A i \in 1..n :
                    acc.got[i].ok \/ acc.family = "validate" =>
                        \E k \in 1..Len(acc.nested) :
                            acc.nested[k] = <<acc.got[i].shard, acc.got[i]>>

C26_Witness ==
    /\ ReplyDone({"distinct"})
    /\ ok = "true"
    /\ Len(acc.got) = 2
    /\ HasWCE(acc.got[1])
    /\ TopLevelWCE = <<>>

\* C27: dataSize on a sharded collection with a keyPattern that is not the
\* shard key pattern, or a min or max without the shard key, fails with the
\* error of the first test that fails and calls no shard, whatever shards
\* own the range
DataSizeKeyMismatch ==
    /\ env.cmd = "dataSize"
    /\ isSharded
    /\ env.input \in {"badKey", "badMin", "badMax"}

C27_KeyMismatchRejected ==
    DataSizeKeyMismatch =>
        /\ calls = <<>>
        /\ inflight = {}
        /\ pc \in {"start", "caught", "done"}
        /\ refreshes = 0
        /\ pc # "start" =>
                err = (CASE env.input = "badKey" -> "13408"
                         [] env.input = "badMin" -> "13405"
                         [] env.input = "badMax" -> "13406")
        /\ Done => ok = "false"

C27_Witness ==
    /\ DataSizeKeyMismatch
    /\ env.input = "badMin"
    /\ env.owners = {2, 3}
    /\ Done
    /\ ok = "false"
    /\ err = "13405"
    /\ calls = <<>>

\* the commands C28 names and the inputs that are client errors: a
\* malformed namespace or an argument of the wrong type
InputCheckedCmds ==
    {"distinct", "geoNear", "renameCollection", "copydb", "group",
     "groupExplain"}
ClientInputError ==
    /\ env.cmd \in InputCheckedCmds
    /\ env.input \in {"bad", "badCollation", "badFromdb", "fromhostBadFromdb"}

\* C28 as stated: with a client input error no shard call is issued,
\* whether or not the namespace is sharded
C28_InputErrorNeverDispatched ==
    ClientInputError => calls = <<>>

\* the input errors the router itself finds: a malformed namespace (for
\* renameCollection and copydb, a to, todb or fromdb that is not a string
\* naming one), copydb's fromdb when no fromhost is given, and a collation
\* of the wrong type when the namespace is sharded
RouterFindsError ==
    /\ ClientInputError
    /\ \/ env.input \in {"bad", "badFromdb"}
       \/ env.input = "badCollation" /\ isSharded

\* C28: an input error the router finds fails the command with no shard
\* call; a collation of the wrong type on an unsharded namespace, and a
\* fromdb of the wrong type beside a fromhost, are not looked at: the
\* command goes to the primary shard as it is
C28_RouterFoundErrorNeverDispatched ==
    /\ RouterFindsError =>
            /\ calls = <<>>
            /\ inflight = {}
            /\ pc \in {"start", "caught", "done"}
            /\ Done => ok = "false"
    /\ ClientInputError /\ ~RouterFindsError /\ ~env.todbSharded
         /\ pc # "start" /\ getShardOK(getPrimaryId) =>
            /\ calls # <<>>
            /\ calls[1] = getPrimaryId
            /\ mode = "passthrough"

C28_Witness ==
    /\ env.cmd = "geoNear"
    /\ env.input = "badCollation"
    /\ isSharded
    /\ Done
    /\ ok = "false"
    /\ err = "TypeMismatch"
    /\ calls = <<>>

C28_WitnessPassedThrough ==
    /\ env.cmd = "distinct"
    /\ env.input = "badCollation"
    /\ ~isSharded
    /\ getPrimaryId = 2
    /\ calls = <<2>>
    /\ Done

\* ------------------------------------------------- the merges, in any order
\* the four merges side by side, and each recomputed over the results it
\* consumed taken in another order
MergeInit == CollStatsInit \/ DistinctInit \/ Geo2dInit \/ ValidateInit

\* the loop body of collStats for a response that carries count and
\* avgObjSize, so that shardObjCount and shardAvgObjSize are assigned
CollStatsLoopAssigned ==
    /\ pc = "loop"
    /\ acc.kind = "collStats"
    /\ Len(acc.got) < MaxResponses
    /\ \E r \in StatsResponses :
        /\ {"count", "avgObjSize"} \subseteq DOMAIN r.flds
        /\ CollStatsFold(r, 0, 0)
    /\ UNCHANGED <<pc, ok>>
    /\ UNCHANGED CollStatsRest

MergeNext ==
    \/ CollStatsLoopAssigned
    \/ CollStatsFinish
    \/ DistinctNext
    \/ Geo2dNext
    \/ ValidateNext

MergeSpec == MergeInit /\ [][MergeNext]_vars

Perms(n) ==
    {p \in [1..n -> 1..n] : \A i, j \in 1..n : p[i] = p[j] => i = j}
Orders == Perms(Len(acc.got))
Arrival == [i \in 1..Len(acc.got) |-> i]

RECURSIVE CollStatsIn(_, _, _)
CollStatsIn(a, got, order) ==
    IF order = <<>> THEN a
    ELSE CollStatsIn(CollStatsStep(a, got[Head(order)], 0, 0), got,
                     Tail(order))

CollStatsMerged(order) ==
    CollStatsResultOf(
        CollStatsIn([acc EXCEPT !.got = <<>>, !.counts = EmptyCounts,
                                !.indexSizes = EmptyCounts,
                                !.unscaledCollSize = 0],
                    acc.got, order))

RECURSIVE DistinctIn(_, _, _, _)
DistinctIn(all, got, order, collator) ==
    IF order = <<>> THEN all
    ELSE DistinctIn(InsertEach(all, got[Head(order)], collator), got,
                    Tail(order), collator)

DistinctMerged(order) ==
    [kind |-> "distinct",
     values |-> DistinctIn(<<>>, acc.got, order, acc.collator)]

RECURSIVE Geo2dIn(_, _, _)
Geo2dIn(results, got, order) ==
    IF order = <<>> THEN results
    ELSE Geo2dIn(InsertAll(results, Candidates(Head(order), got[Head(order)])),
                 got, Tail(order))

Geo2dMerged(order) ==
    [kind |-> "geoNear",
     results |-> Geo2dResultsOf(acc.limit, Geo2dIn(<<>>, acc.got, order))]

RECURSIVE ValidateIn(_, _, _)
ValidateIn(a, got, order) ==
    IF order = <<>> THEN a
    ELSE ValidateIn(ValidateStep(a, got[Head(order)].shard,
                                 got[Head(order)].result),
                    got, Tail(order))

ValidateMerged(order) ==
    ValidateOutput(
        ValidateIn([acc EXCEPT !.got = <<>>, !.isValid = TRUE,
                               !.errored = FALSE, !.errmsg = <<>>,
                               !.raw = <<>>],
                   acc.got, order))

Distances2(q) == [i \in 1..Len(q) |-> q[i].dis]
Classes2(q) == [i \in 1..Len(q) |-> bsonCmp(q[i], acc.collator)]

C29_WitnessSums ==
    /\ CollStatsDone
    /\ Len(acc.got) = 2
    /\ acc.got[1] # acc.got[2]
    /\ At(acc.out.counts, "count") = 3
    /\ CollStatsMerged(<<2, 1>>) = acc.out

\* a multi-shard command that ended on the failure of a shard: the shard
\* whose result the error is read from is the one at the head of todo
MultiShardFailed ==
    /\ env.cmd \in SkipCmds
    /\ mode = "scatter"
    /\ Done
    /\ ok = "false"
    /\ err = "shard"
FailedShard == Head(todo)
\* the place of a shard in the dispatch order
DispatchIndex(s) == CHOOSE i \in 1..Len(calls) : calls[i] = s

\* C30: when a multi-shard command fails on a shard, that shard is the first
\* in dispatch order whose result was a failure: every shard dispatched
\* before it answered ok and was merged, and no result of a shard
\* dispatched after it was consumed, failed or not
C30_FirstFailureInDispatchOrder ==
    MultiShardFailed =>
        /\ todo # <<>>
        /\ FailedShard \in Range(calls)
        /\ seen[Len(seen)] = "notok"
        /\ DispatchIndex(FailedShard) = Len(seen)
        /\ \A j \in 1..(Len(seen) - 1) :
                seen[j] = "ok" /\ folded[j] = calls[j]
        /\ Len(folded) = Len(seen) - 1

C30_Witness ==
    /\ MultiShardFailed
    /\ env.cmd = "geoNear"
    /\ calls = <<1, 2, 3>>
    /\ folded = <<1>>
    /\ FailedShard = 2
    /\ 3 \in DOMAIN resp
    /\ resp[3] = "notok"

\* ------------------------------------------------- collStats, the fields
\* the chain of tests CollectionStats::run applies to each field of a shard's
\* response, for the fields that are not added up: the result builder, which
\* holds "sharded" when the loop starts, nindexes and warnedAboutIndexes. A
\* response is read in the order of its fields; the log holds the names
\* warning() wrote
IgnoredFields == {"ns", "ok", "lastExtentSize", "paddingFactor"}
CopyOnceFields ==
    {"flags", "systemFlags", "userFlags", "capped", "paddingFactorNote"}
NotRolledUpFields == {"indexDetails", "wiredTiger"}
IndexesWarning == "indexes don't all match - ok if ensureIndex is running"

RollupFieldOrder ==
    <<"ok", "flags", "capped", "wiredTiger", "indexDetails", "nindexes",
      "maxSize">>
Element(n, v) == [name |-> n, value |-> v]

\* a response with ok, flags when fl is not 0, the fields of extra, and
\* nindexes when n is not negative
RollupResponse(fl, extra, n) ==
    [f \in {"ok"} \cup (IF fl > 0 THEN {"flags"} ELSE {}) \cup extra
            \cup (IF n >= 0 THEN {"nindexes"} ELSE {}) |->
        CASE f = "flags" -> fl
          [] f = "nindexes" -> n
          [] OTHER -> 1]

\* the responses: those that differ in their flags and in one further field
\* report one index, the others differ only in nindexes
RollupResponses ==
    {RollupResponse(fl, extra, 1) :
        fl \in 0..2,
        extra \in {{}} \cup {{x} : x \in {"capped", "wiredTiger",
                                           "indexDetails", "maxSize"}}}
    \cup {RollupResponse(0, {}, n) : n \in -1..3}

\* the fields of a response in their order
ResponseElements(r) ==
    SelectSeq([i \in 1..Len(RollupFieldOrder) |->
                    Element(RollupFieldOrder[i],
                            At(r, RollupFieldOrder[i]))],
              LAMBDA e : e.name \in DOMAIN r)

\* BSONObjBuilder::hasField
hasField(result, n) == \E i \in 1..Len(result) : result[i].name = n

\* mutant: the field is appended whether or not the result holds it
CopyOnce_Always(result, e) == Append(result, e)

\* if (!result.hasField(e.fieldName())) result.append(e)
CopyOnce(result, e) ==
    IF ~hasField(result, e.name) THEN Append(result, e) ELSE result

\* the nindexes branch: nindexes that is still 0 takes the shard's number, an
\* equal number changes nothing, another one raises nindexes when it is
\* larger and appends the warning unless it was appended before
IndexesStep(a, myIndexes) ==
    IF a.nindexes = 0 THEN [a EXCEPT !.nindexes = myIndexes]
    ELSE IF a.nindexes = myIndexes THEN a
    ELSE [a EXCEPT
            !.nindexes = IF myIndexes > @ THEN myIndexes ELSE @,
            !.result = IF ~a.warnedAboutIndexes
                       THEN Append(@, Element("warning", IndexesWarning))
                       ELSE @,
            !.warnedAboutIndexes = TRUE]

\* one turn of the while loop over the fields of a response
RollupElement(a, e) ==
    IF e.name \in IgnoredFields THEN a
    ELSE IF e.name \in SummedFields \cup {"avgObjSize", "indexSizes"} THEN a
    ELSE IF e.name \in CopyOnceFields
        THEN [a EXCEPT !.result = CopyOnce(@, e)]
    ELSE IF e.name \in NotRolledUpFields THEN a
    ELSE IF e.name = "nindexes" THEN IndexesStep(a, e.value)
    ELSE [a EXCEPT !.log = Append(@, e.name)]

RECURSIVE RollupElements(_, _)
RollupElements(a, elems) ==
    IF elems = <<>> THEN a
    ELSE RollupElements(RollupElement(a, Head(elems)), Tail(elems))

\* the body of the loop over the shards for one response
RollupStep(a, r) ==
    [RollupElements(a, ResponseElements(r)) EXCEPT !.got = Append(@, r)]

\* what is appended after the loop, the sums left out
RollupOutput(a) ==
    a.result \o <<Element("ns", 0), Element("indexSizes", 0),
                  Element("avgObjSize", 0), Element("nindexes", a.nindexes),
                  Element("nchunks", 0), Element("shards", a.got)>>

RollupInit ==
    /\ env = [DefaultEnv("collStats") EXCEPT !.sharded = TRUE]
    /\ pc = "loop"
    /\ mode = "scatter"
    /\ attempt = 1
    /\ refreshes = 0
    /\ shardIds = {}
    /\ todo = <<>>
    /\ calls = <<>>
    /\ inflight = {}
    /\ resp = NoResp
    /\ skipped = {}
    /\ folded = <<>>
    /\ seen = <<>>
    /\ ok = "pending"
    /\ err = ""
    /\ md5 = EmptyMd5
    /\ acc = [kind |-> "rollup", got |-> <<>>,
              result |-> <<Element("sharded", 1)>>, nindexes |-> 0,
              warnedAboutIndexes |-> FALSE, log |-> <<>>, out |-> <<>>]

RollupLoop ==
    /\ pc = "loop"
    /\ acc.kind = "rollup"
    /\ Len(acc.got) < NumShards
    /\ \E r \in RollupResponses : acc' = RollupStep(acc, r)
    /\ UNCHANGED <<pc, ok>>
    /\ UNCHANGED CollStatsRest

RollupFinish ==
    /\ pc = "loop"
    /\ acc.kind = "rollup"
    /\ acc' = [acc EXCEPT !.out = RollupOutput(acc)]
    /\ pc' = "done"
    /\ ok' = "true"
    /\ UNCHANGED CollStatsRest

RollupNext == RollupLoop \/ RollupFinish

RollupSpec == RollupInit /\ [][RollupNext]_vars

RollupDone == pc = "done" /\ acc.kind = "rollup"
TopLevel(n) == {i \in 1..Len(acc.out) : acc.out[i].name = n}
Reporting(n) == {i \in 1..Len(acc.got) : n \in DOMAIN acc.got[i]}

\* C31: a sharded collStats whose shards all answered succeeds whatever
\* fields the responses carry; a copy-once field (flags, systemFlags,
\* userFlags, capped, paddingFactorNote) is in the result once, with the
\* value of the first shard that reported it, when some shard reported it and
\* not at all otherwise; indexDetails and wiredTiger are never in the result;
\* a field the router does not know is only logged
C31_UnknownFieldsNeverAbort ==
    RollupDone =>
        /\ ok = "true"
        /\ \A n \in CopyOnceFields :
            IF Reporting(n) = {} THEN TopLevel(n) = {}
            ELSE /\ Cardinality(TopLevel(n)) = 1
                 /\ \A i \in TopLevel(n) :
                        acc.out[i].value = acc.got[Min(Reporting(n))][n]
        /\ \A n \in NotRolledUpFields : TopLevel(n) = {}
        /\ \A i \in 1..Len(acc.got) :
            \A n \in DOMAIN acc.got[i] :
                n \notin (IgnoredFields \cup CopyOnceFields
                            \cup NotRolledUpFields \cup {"nindexes"})
                    => /\ TopLevel(n) = {}
                       /\ \E k \in 1..Len(acc.log) : acc.log[k] = n

\* three shards: the first reports no flags and an unknown field, the second
\* flags 2 and wiredTiger, the third flags 1; the result carries flags 2
C31_Witness ==
    /\ RollupDone
    /\ Len(acc.got) = 3
    /\ DOMAIN acc.got[1] = {"ok", "nindexes", "maxSize"}
    /\ DOMAIN acc.got[2] = {"ok", "nindexes", "flags", "wiredTiger"}
    /\ acc.got[2]["flags"] = 2
    /\ "flags" \in DOMAIN acc.got[3] /\ acc.got[3]["flags"] = 1
    /\ \E i \in TopLevel("flags") : acc.out[i].value = 2
    /\ ok = "true"

\* ------------------------------------------------- geoNear, the whole run
\* Geo2dFindNearCmd::run on a sharded collection from the spawn loop to the
\* stats: the targets of the query, those of them the registry does not
\* know, the futures in the order they were spawned, shardArray, the results
\* of the futures that have completed and the order they completed in, and
\* what the join loop added up
GeoResponses ==
    {[ok |-> TRUE, errmsg |-> "", time |-> t, nscanned |-> t - 1,
      dists |-> d] : t \in 1..2, d \in {<<1>>, <<1, 1>>, <<2, 1>>}}
    \cup {[ok |-> FALSE, errmsg |-> e, time |-> 0, nscanned |-> 0,
           dists |-> <<>>] : e \in ErrMsgs}

\* the spawn loop: one future and one entry of shardArray for every target
\* the registry knows, in the order of the set of targets
Geo2dSpawn(targets, notFound) == SetToSeq(targets \ notFound)

\* the body of the join loop for one ok result: time and nscanned are added
\* up and every candidate is inserted
Geo2dJoinStep(a, res) ==
    [a EXCEPT
        !.got = Append(@, res),
        !.time = @ + res.time,
        !.nscanned = @ + res.nscanned,
        !.results = InsertAll(@, Candidates(Len(a.got) + 1, res.dists))]

\* after the loop: the results up to the limit, and the stats
Geo2dOutput(a) ==
    [kind |-> "geoNear",
     results |-> Geo2dResultsOf(a.limit, a.results),
     stats |-> [time |-> a.time, nscanned |-> a.nscanned,
                shards |-> a.shardArray]]

\* a join that failed: the errmsg of the result is the command's
Geo2dFailure(res) == [kind |-> "geoNear", errmsg |-> res.errmsg]

Geo2dRunInit ==
    /\ env = [DefaultEnv("geoNear") EXCEPT !.sharded = TRUE]
    /\ pc = "join"
    /\ mode = "scatter"
    /\ attempt = 1
    /\ refreshes = 0
    /\ shardIds = {}
    /\ todo = <<>>
    /\ calls = <<>>
    /\ inflight = {}
    /\ resp = NoResp
    /\ skipped = {}
    /\ folded = <<>>
    /\ seen = <<>>
    /\ ok = "pending"
    /\ err = ""
    /\ md5 = EmptyMd5
    /\ \E targets \in (SUBSET Shards) \ {{}} : \E notFound \in SUBSET targets :
       \E num \in {NoNumber, Number(2)} :
        acc = [kind |-> "geoNearRun", targets |-> targets,
               notFound |-> notFound,
               futures |-> Geo2dSpawn(targets, notFound),
               shardArray |-> Geo2dSpawn(targets, notFound),
               limit |-> ParseLimit(num, NoNumber),
               done |-> [s \in {} |-> 0], order |-> <<>>, got |-> <<>>,
               results |-> <<>>, time |-> 0, nscanned |-> 0, out |-> NoOut]

\* a spawned command completes on its shard, whichever it is
Geo2dRunComplete ==
    /\ pc = "join"
    /\ acc.kind = "geoNearRun"
    /\ \E s \in Range(acc.futures) \ DOMAIN acc.done :
       \E res \in GeoResponses :
            acc' = [acc EXCEPT !.done = (s :> res) @@ @,
                               !.order = Append(@, s)]
    /\ UNCHANGED <<pc, ok>>
    /\ UNCHANGED CollStatsRest

\* mutant: the futures are joined in the order they completed
Geo2dRunJoin_CompletionOrder ==
    /\ pc = "join"
    /\ acc.kind = "geoNearRun"
    /\ Len(acc.got) < Len(acc.order)
    /\ LET s == acc.order[Len(acc.got) + 1] IN
        /\ IF acc.done[s].ok
           THEN /\ acc' = Geo2dJoinStep(acc, acc.done[s])
                /\ UNCHANGED <<pc, ok>>
           ELSE /\ acc' = [acc EXCEPT !.out = Geo2dFailure(acc.done[s])]
                /\ pc' = "done"
                /\ ok' = "false"
    /\ UNCHANGED CollStatsRest

\* the join loop: the futures are joined from the first to the last, a join
\* returns when its future has completed, and a result that is not ok ends
\* the command
Geo2dRunJoin ==
    /\ pc = "join"
    /\ acc.kind = "geoNearRun"
    /\ Len(acc.got) < Len(acc.futures)
    /\ LET s == acc.futures[Len(acc.got) + 1] IN
        /\ s \in DOMAIN acc.done
        /\ IF acc.done[s].ok
           THEN /\ acc' = Geo2dJoinStep(acc, acc.done[s])
                /\ UNCHANGED <<pc, ok>>
           ELSE /\ acc' = [acc EXCEPT !.out = Geo2dFailure(acc.done[s])]
                /\ pc' = "done"
                /\ ok' = "false"
    /\ UNCHANGED CollStatsRest

Geo2dRunFinish ==
    /\ pc = "join"
    /\ acc.kind = "geoNearRun"
    /\ Len(acc.got) = Len(acc.futures)
    /\ acc' = [acc EXCEPT !.out = Geo2dOutput(acc)]
    /\ pc' = "done"
    /\ ok' = "true"
    /\ UNCHANGED CollStatsRest

Geo2dRunNext == Geo2dRunComplete \/ Geo2dRunJoin \/ Geo2dRunFinish

Geo2dRunSpec == Geo2dRunInit /\ [][Geo2dRunNext]_vars

Geo2dRunDone == pc = "done" /\ acc.kind = "geoNearRun"
\* doc <<k, i>> is the i-th candidate of the k-th future
Before(c, d) == c[1] < d[1] \/ (c[1] = d[1] /\ c[2] < d[2])

\* C32: in the merged results of a sharded geoNear two candidates of the same
\* distance stand in the order their shards were dispatched, and in the order
\* of their shard's results array when they come from one shard; stats.shards
\* lists the targets the registry knows, each once, and stats.time and
\* stats.nscanned are the sums of those of the shards' results
C32_TiesInDispatchOrderStatsSummed ==
    (Geo2dRunDone /\ ok = "true") =>
        LET out == acc.out.results IN
        /\ \A i, j \in 1..Len(out) :
            (i < j /\ out[i].dis = out[j].dis) =>
                Before(out[i].doc, out[j].doc)
        /\ Range(acc.out.stats.shards) = acc.targets \ acc.notFound
        /\ Len(acc.out.stats.shards) = Cardinality(acc.targets \ acc.notFound)
        /\ \A k \in 1..Len(acc.futures) : acc.got[k] = acc.done[acc.futures[k]]
        /\ acc.out.stats.time =
                SumSeq([k \in 1..Len(acc.futures) |->
                            acc.done[acc.futures[k]].time])
        /\ acc.out.stats.nscanned =
                SumSeq([k \in 1..Len(acc.futures) |->
                            acc.done[acc.futures[k]].nscanned])

\* shards 1 and 3 are called and 2 is not known; the first result holds the
\* distances 2 and 1, the second 1 and 1: the three candidates at distance 1
\* stand in the order of their shards
C32_Witness ==
    /\ Geo2dRunDone
    /\ ok = "true"
    /\ acc.targets = {1, 2, 3} /\ acc.notFound = {2}
    /\ acc.out.stats.shards = <<1, 3>>
    /\ acc.got[1].dists = <<2, 1>> /\ acc.got[2].dists = <<1, 1>>
    /\ acc.got[1].time = 2 /\ acc.got[2].time = 1
    /\ acc.out.stats.time = 3
    /\ acc.out.stats.nscanned = 1
    /\ Len(acc.out.results) = 4
    /\ [i \in 1..4 |-> acc.out.results[i].doc] =
            << <<1, 2>>, <<2, 1>>, <<2, 2>>, <<1, 1>> >>

\* the response the results of the futures give when they are joined from
\* the first to the last (none while a future to join has not completed)
RECURSIVE JoinedInOrder(_, _, _)
JoinedInOrder(a, futures, done) ==
    IF futures = <<>> THEN Geo2dOutput(a)
    ELSE IF Head(futures) \notin DOMAIN done THEN NoOut
    ELSE IF ~done[Head(futures)].ok THEN Geo2dFailure(done[Head(futures)])
    ELSE JoinedInOrder(Geo2dJoinStep(a, done[Head(futures)]), Tail(futures),
                       done)

Reversed(q) == [i \in 1..Len(q) |-> q[Len(q) + 1 - i]]

\* C33: the futures of a sharded geoNear complete in any order and are joined
\* in the order they were spawned: the response of the command, its results,
\* its stats, or the errmsg of the failure it reports, is the one the results
\* of the shards give when taken in dispatch order, whatever the order they
\* completed in
C33_SameForEveryCompletionOrder ==
    Geo2dRunDone =>
        /\ acc.out =
            JoinedInOrder([acc EXCEPT !.got = <<>>, !.results = <<>>,
                                      !.time = 0, !.nscanned = 0],
                          acc.futures, acc.done)
        /\ ok = IF \E k \in 1..Len(acc.futures) :
                        /\ acc.futures[k] \in DOMAIN acc.done
                        /\ ~acc.done[acc.futures[k]].ok
                        /\ \A j \in 1..(k - 1) :
                                acc.futures[j] \in DOMAIN acc.done
                THEN "false" ELSE "true"

\* three futures that completed from the last to the first, with candidates
\* at one distance on all of them
C33_Witness ==
    /\ Geo2dRunDone
    /\ ok = "true"
    /\ Len(acc.futures) = 3
    /\ acc.order = Reversed(acc.futures)
    /\ \A s \in 1..3 : acc.done[s].dists = <<1>>
    /\ acc.done[1].time = 2 /\ acc.done[2].time = 1
    /\ Len(acc.out.results) = 3
    /\ [i \in 1..3 |-> acc.out.results[i].doc[1]] = <<1, 2, 3>>

\* the second and the third future failed, the third before the second, and
\* the command reports the failure of the second
C33_WitnessFailure ==
    /\ Geo2dRunDone
    /\ ok = "false"
    /\ acc.order = <<3, 2, 1>>
    /\ acc.done[1].ok
    /\ acc.done[2].errmsg = "e1" /\ acc.done[3].errmsg = "e2"
    /\ acc.out.errmsg = "e1"

\* C34: in the chained filemd5 a step whose result is not ok, or whose
\* dispatch threw, ends the command with failure, failedAt the startAt of
\* that step and sentCommand the request of that step, and no request is sent
\* after it; a result whose numChunks is smaller than the startAt sent ends
\* the command with the failed verify and no request is sent after it
C34_FailedStepEndsTheChain ==
    (FileMD5Chained /\ seen # <<>>) =>
        LET o == seen[Len(seen)] IN
        /\ o \in {"notok", "stale", "fail"} =>
            /\ pc = "done"
            /\ ok = "false"
            /\ md5.out.kind = "failure"
            /\ md5.out.failedAt = LastSent.cmd.startAt
            /\ md5.out.sentCommand = LastSent.cmd
            /\ Len(calls) = Len(seen)
            /\ inflight = {}
        /\ o = "backwards" =>
            /\ pc \in {"caught", "done"}
            /\ err = "verify"
            /\ ok # "true"
            /\ md5.last.numChunks < LastSent.cmd.startAt
            /\ Len(calls) = Len(seen)
            /\ inflight = {}

\* the second step, sent with startAt 1 and the state of the first, came
\* back not ok
C34_Witness ==
    /\ FileMD5Chained
    /\ seen = <<"ok", "notok">>
    /\ pc = "done"
    /\ md5.out.kind = "failure"
    /\ md5.out.failedAt = 1
    /\ md5.out.sentCommand.hasState
    /\ Len(calls) = 2

\* the second step reported fewer chunks than its startAt
C34_WitnessBackwards ==
    /\ FileMD5Chained
    /\ seen = <<"ok", "backwards">>
    /\ err = "verify"
    /\ LastSent.cmd.startAt = 2
    /\ md5.last.numChunks = 1
    /\ Len(calls) = 2

\* C35 as stated: the merged avgObjSize of a sharded collStats is computed
\* from the count and avgObjSize fields the responses carry and from nothing
\* else: a response that omits count or avgObjSize adds nothing to the
\* weighted size
CarriesBoth(r) == "count" \in DOMAIN r.flds /\ "avgObjSize" \in DOMAIN r.flds
ReportedSize ==
    SumSeq([i \in 1..Len(acc.got) |->
                IF CarriesBoth(acc.got[i])
                THEN acc.got[i].flds["avgObjSize"] * acc.got[i].flds["count"]
                ELSE 0])

C35_OnlyReportedValuesWeigh ==
    CollStatsDone =>
        /\ acc.unscaledCollSize = ReportedSize
        /\ acc.out.avgObjSize =
                IF FieldSum("count") > 0
                THEN [num |-> ReportedSize, den |-> FieldSum("count")]
                ELSE [num |-> 0, den |-> 1]

\* C36 as stated: the nindexes of a sharded collStats is the largest nindexes
\* a shard reported, and the result carries the warning about indexes that
\* do not match once when two shards reported different nindexes and not at
\* all otherwise
Max(S) == CHOOSE m \in S : \A x \in S : x <= m
ReportedIndexCounts ==
    {acc.got[i]["nindexes"] : i \in Reporting("nindexes")}

C36_MaxAndWarningIffMismatch ==
    RollupDone =>
        /\ \A i \in TopLevel("nindexes") :
                acc.out[i].value = Max(ReportedIndexCounts \cup {0})
        /\ Cardinality(TopLevel("warning")) =
                IF Cardinality(ReportedIndexCounts) > 1 THEN 1 ELSE 0

\* C37: a sharded validate fails exactly when a result of a shard carries an
\* errmsg, whatever its ok and its valid are; a result whose valid is not
\* true and that carries no errmsg makes the merged valid false and leaves
\* the command successful
NotValid == {i \in 1..Len(acc.got) : acc.got[i].result.valid # "true"}

C37_FailsIffSomeErrmsg ==
    ValidateDone =>
        /\ ok = "false" <=> WithErrmsg # {}
        /\ ok \in {"true", "false"}
        /\ NotValid # {} => ~acc.out.valid
        /\ (NotValid # {} /\ WithErrmsg = {}) =>
                ok = "true" /\ ~acc.out.valid

\* two results without errmsg, the second with valid false
C37_Witness ==
    /\ ValidateDone
    /\ Len(acc.got) = 2
    /\ acc.got[1].result.valid = "true"
    /\ acc.got[2].result.valid = "false"
    /\ WithErrmsg = {}
    /\ ok = "true"
    /\ ~acc.out.valid

\* a result that is ok and valid and carries an errmsg fails the command
C37_WitnessErrmsgOnly ==
    /\ ValidateDone
    /\ Len(acc.got) = 1
    /\ acc.got[1].result.ok
    /\ acc.got[1].result.valid = "true"
    /\ acc.got[1].result.errmsg = "e1"
    /\ ok = "false"
    /\ acc.out.valid

\* ------------------------------------------- the loops over the targets
\* the loops of CollectionStats::run, DataSizeCmd::run and DistinctCmd::run
\* with what they merge: the targets are visited in the order of their set, a
\* target the registry does not know is skipped, every other one is called
\* and its response, here always an ok one, is merged at once. geoNear takes
\* part with its own spawn and join loops
SweepCmds == {"collStats", "dataSize", "distinct"}

SweepResponses(c) ==
    CASE c = "collStats" ->
            {r \in StatsResponses :
                /\ DOMAIN r.flds = StatsFields
                /\ DOMAIN r.indexSizes = IndexNames}
      [] c = "dataSize" -> [size : 1..2, numObjects : 1..2, millis : {1}]
      [] c = "distinct" -> {<<>>} \cup {<<v>> : v \in DistinctValues}

\* size += res["size"].number() and the like
DataSizeStep(a, r) ==
    [a EXCEPT !.got = Append(@, r),
              !.size = @ + r.size,
              !.numObjects = @ + r.numObjects,
              !.millis = @ + r.millis]

SweepStep(a, r) ==
    CASE a.kind = "collStats" -> CollStatsStep(a, r, 0, 0)
      [] a.kind = "dataSize" -> DataSizeStep(a, r)
      [] a.kind = "distinct" ->
            [a EXCEPT !.got = Append(@, r),
                      !.all = InsertEach(@, r, a.collator)]

\* what is written after the loop
SweepOutput(a) ==
    CASE a.kind = "collStats" -> CollStatsResultOf(a)
      [] a.kind = "dataSize" ->
            [kind |-> "dataSize", size |-> a.size,
             numObjects |-> a.numObjects, millis |-> a.millis]
      [] a.kind = "distinct" -> [kind |-> "distinct", values |-> a.all]

SweepInit ==
    /\ \E c \in SweepCmds : \E targets \in (SUBSET Shards) \ {{}} :
       \E known \in SUBSET Shards :
        /\ env = [DefaultEnv(c) EXCEPT !.sharded = TRUE, !.owners = targets,
                                       !.matching = targets,
                                       !.registered = known]
        /\ shardIds = targets
        /\ todo = SetToSeq(targets)
        /\ acc \in
            CASE c = "collStats" ->
                    {[kind |-> "collStats", got |-> <<>>,
                      counts |-> EmptyCounts, indexSizes |-> EmptyCounts,
                      unscaledCollSize |-> 0, out |-> NoOut]}
              [] c = "dataSize" ->
                    {[kind |-> "dataSize", got |-> <<>>, size |-> 0,
                      numObjects |-> 0, millis |-> 0, out |-> NoOut]}
              [] c = "distinct" ->
                    {[kind |-> "distinct", collator |-> k, got |-> <<>>,
                      all |-> <<>>, out |-> NoOut] : k \in Collators}
    /\ pc = "sweep"
    /\ mode = "scatter"
    /\ attempt = 1
    /\ refreshes = 0
    /\ calls = <<>>
    /\ inflight = {}
    /\ resp = NoResp
    /\ skipped = {}
    /\ folded = <<>>
    /\ seen = <<>>
    /\ ok = "pending"
    /\ err = ""
    /\ md5 = EmptyMd5

SweepRest == <<env, mode, attempt, refreshes, shardIds, inflight, resp, err, md5>>

\* mutant: a target the registry does not know fails the command
SweepSkip_Fails ==
    /\ pc = "sweep"
    /\ todo # <<>>
    /\ ~getShardOK(Head(todo))
    /\ skipped' = skipped \cup {Head(todo)}
    /\ todo' = Tail(todo)
    /\ pc' = "done"
    /\ ok' = "false"
    /\ UNCHANGED <<acc, calls, folded, seen>>
    /\ UNCHANGED SweepRest

\* if (!shardStatus.isOK()) continue
SweepSkip ==
    /\ pc = "sweep"
    /\ todo # <<>>
    /\ ~getShardOK(Head(todo))
    /\ skipped' = skipped \cup {Head(todo)}
    /\ todo' = Tail(todo)
    /\ UNCHANGED <<acc, pc, ok, calls, folded, seen>>
    /\ UNCHANGED SweepRest

\* runCommand on the shard and the merge of its response
SweepCall ==
    /\ pc = "sweep"
    /\ todo # <<>>
    /\ getShardOK(Head(todo))
    /\ calls' = Append(calls, Head(todo))
    /\ seen' = Append(seen, "ok")
    /\ folded' = Append(folded, Head(todo))
    /\ \E r \in SweepResponses(env.cmd) : acc' = SweepStep(acc, r)
    /\ todo' = Tail(todo)
    /\ UNCHANGED <<pc, ok, skipped>>
    /\ UNCHANGED SweepRest

SweepFinish ==
    /\ pc = "sweep"
    /\ todo = <<>>
    /\ acc' = [acc EXCEPT !.out = SweepOutput(acc)]
    /\ pc' = "done"
    /\ ok' = "true"
    /\ UNCHANGED <<todo, calls, skipped, folded, seen>>
    /\ UNCHANGED SweepRest

SweepNext ==
    \/ SweepSkip
    \/ SweepCall
    \/ SweepFinish
    \/ Geo2dRunComplete
    \/ Geo2dRunJoin
    \/ Geo2dRunFinish

SweepSpec == (SweepInit \/ Geo2dRunInit) /\ [][SweepNext]_vars

\* every target is unknown to the registry
AllSkipped ==
    IF acc.kind = "geoNearRun" THEN acc.notFound = acc.targets
    ELSE shardIds \cap env.registered = {}

\* C38: when the registry knows none of the targets of a sharded collStats,
\* dataSize, distinct or geoNear, no shard is called and the command
\* succeeds with the merge of nothing: collStats writes no summed field (every
\* sum is zero), an empty indexSizes and avgObjSize 0, dataSize writes size,
\* numObjects and millis 0, distinct an empty values array, geoNear an empty
\* results array, stats that are 0 and no shard in stats.shards
C38_AllSkippedIsEmptySuccess ==
    AllSkipped =>
        /\ calls = <<>>
        /\ acc.kind = "geoNearRun" => acc.futures = <<>> /\ acc.done = NoResp
        /\ pc = "done" =>
            /\ ok = "true"
            /\ CASE acc.kind = "collStats" ->
                        /\ \A f \in SummedFields : At(acc.out.counts, f) = 0
                        /\ acc.out.counts = EmptyCounts
                        /\ acc.out.indexSizes = EmptyCounts
                        /\ acc.out.avgObjSize = [num |-> 0, den |-> 1]
                 [] acc.kind = "dataSize" ->
                        /\ acc.out.size = 0
                        /\ acc.out.numObjects = 0
                        /\ acc.out.millis = 0
                 [] acc.kind = "distinct" -> acc.out.values = <<>>
                 [] acc.kind = "geoNearRun" ->
                        /\ acc.out.results = <<>>
                        /\ acc.out.stats =
                            [time |-> 0, nscanned |-> 0, shards |-> <<>>]

\* a collStats whose two targets were both skipped has ended
C38_Witness ==
    /\ pc = "done"
    /\ env.cmd = "collStats"
    /\ acc.kind = "collStats"
    /\ shardIds = {1, 3}
    /\ skipped = {1, 3}
    /\ calls = <<>>
    /\ ok = "true"
    /\ acc.out.avgObjSize = [num |-> 0, den |-> 1]

C38_WitnessGeoNear ==
    /\ Geo2dRunDone
    /\ acc.targets = {2, 3}
    /\ acc.notFound = {2, 3}
    /\ ok = "true"
    /\ acc.out.results = <<>>

C38_WitnessDistinct ==
    /\ pc = "done"
    /\ acc.kind = "distinct"
    /\ skipped = shardIds
    /\ ok = "true"
    /\ acc.out.values = <<>>

C38_WitnessDataSize ==
    /\ pc = "done"
    /\ acc.kind = "dataSize"
    /\ skipped = shardIds
    /\ ok = "true"
    /\ acc.out.size = 0

\* ------------------------------------------------- passthrough, the fields
\* a command on an unsharded namespace that ends in passthrough: collStats,
\* which writes sharded and primary before it forwards, and a command that
\* forwards at once. The reply of the primary shard carries ok and any of
\* sharded, n, primary and writeConcernError, each name once
PassReplies ==
    [shard : Shards, ok : BOOLEAN,
     flds : SUBSET {"sharded", "n", "primary", "writeConcernError"}]
\* a field the router writes itself: it comes from no shard
RouterElement(n) == [name |-> n, shard |-> 0, tagged |-> FALSE]

PassInit ==
    /\ \E c \in {"collStats", "compact"} : \E p \in Shards :
        env = [DefaultEnv(c) EXCEPT !.primary = p]
    /\ pc = "start"
    /\ mode = "passthrough"
    /\ attempt = 1
    /\ refreshes = 0
    /\ shardIds = {}
    /\ todo = <<>>
    /\ calls = <<>>
    /\ inflight = {}
    /\ resp = NoResp
    /\ skipped = {}
    /\ folded = <<>>
    /\ seen = <<>>
    /\ ok = "pending"
    /\ err = ""
    /\ md5 = EmptyMd5
    /\ acc = [kind |-> "reply", family |-> "passthrough", got |-> <<>>,
              result |-> <<>>, nested |-> <<>>, errmsg |-> <<>>,
              returned |-> ""]

\* mutant: sharded and primary are appended after the passthrough
CollStatsUnshardedRun_WritesAfter ==
    /\ pc = "start"
    /\ env.cmd = "collStats"
    /\ \E r \in PassReplies :
        /\ r.shard = getPrimaryId
        /\ acc' = [PassthroughReply(acc, r) EXCEPT
                        !.result = @ \o <<RouterElement("sharded"),
                                          RouterElement("primary")>>]
        /\ ok' = Returned(r.ok)
    /\ pc' = "done"
    /\ UNCHANGED CollStatsRest

\* CollectionStats::run on an unsharded collection: sharded and primary are
\* appended, then the command is passed through
CollStatsUnshardedRun ==
    /\ pc = "start"
    /\ env.cmd = "collStats"
    /\ \E r \in PassReplies :
        /\ r.shard = getPrimaryId
        /\ acc' = PassthroughReply(
                    [acc EXCEPT !.result = <<RouterElement("sharded"),
                                             RouterElement("primary")>>], r)
        /\ ok' = Returned(r.ok)
    /\ pc' = "done"
    /\ UNCHANGED CollStatsRest

\* a command that is passed through with an empty result builder
PlainPassthroughReply ==
    /\ pc = "start"
    /\ env.cmd # "collStats"
    /\ \E r \in PassReplies :
        /\ r.shard = getPrimaryId
        /\ acc' = PassthroughReply(acc, r)
        /\ ok' = Returned(r.ok)
    /\ pc' = "done"
    /\ UNCHANGED CollStatsRest

PassNext == CollStatsUnshardedRun \/ PlainPassthroughReply

PassSpec == PassInit /\ [][PassNext]_vars

\* the names the router has written when the reply is copied
WrittenBefore ==
    (IF env.cmd = "collStats" THEN {"sharded", "primary"} ELSE {})
        \cup (IF HasWCE(acc.got[1]) THEN {"writeConcernError"} ELSE {})

\* C39: in the response of a passthrough no two fields have one name; the
\* fields the router wrote before it copied the reply, sharded and primary
\* of an unsharded collStats and the shard-tagged writeConcernError, are in
\* it, the fields of the reply that have one of those names are not, and
\* every other field of the reply is in it as the shard sent it
C39_NoFieldTwice ==
    (pc = "done" /\ acc.kind = "reply" /\ mode = "passthrough") =>
        LET res == acc.result
            reply == ReplyElements(acc.got[1])
        IN
        /\ \A i, j \in 1..Len(res) : res[i].name = res[j].name => i = j
        /\ \A n \in WrittenBefore :
            \E i \in 1..Len(res) :
                /\ res[i].name = n
                /\ IF n = "writeConcernError"
                   THEN res[i].tagged /\ res[i].shard = acc.got[1].shard
                   ELSE res[i] = RouterElement(n)
        /\ \A k \in 1..Len(reply) :
            reply[k] \in Range(res) <=> reply[k].name \notin WrittenBefore
        /\ Len(res) = Cardinality(WrittenBefore \cup
                                    {reply[k].name : k \in 1..Len(reply)})

\* an unsharded collStats whose reply holds sharded, n, primary and a
\* writeConcernError: the response holds the router's sharded and primary,
\* the tagged writeConcernError, ok and n
C39_Witness ==
    /\ pc = "done"
    /\ mode = "passthrough"
    /\ env.cmd = "collStats"
    /\ acc.got[1].flds = {"sharded", "n", "primary", "writeConcernError"}
    /\ Len(acc.result) = 5
    /\ acc.result[1] = RouterElement("sharded")
    /\ acc.result[3].tagged
    /\ acc.result[5].name = "n" /\ acc.result[5].shard = acc.got[1].shard

\* ------------------------------------------- createIndexes, the downgrade
\* CreateIndexesCmd::specialErrorHandler, called with the result of a shard
\* that failed the command. An error message is the sequence of its words,
\* indexes is an array of specs or something else, a spec is its key and the
\* ns it carries if any, and a gle is its errmsg and err elements, each with
\* its type and, for a string, its text
MaxIndexes == 3

NoSuchCmd == <<"no", "such", "cmd">>
ErrorMessages ==
    {<<"no", "such", "cmd", ":", "createIndexes">>,
     <<"exception", ":", "no", "such", "cmd">>,
     <<"no", "such", "collection">>,
     <<"not", "master">>}

\* errmsg.find(t) != string::npos
Contains(s, t) ==
    \E i \in 0..(Len(s) - Len(t)) : SubSeq(s, i + 1, i + Len(t)) = t

IndexSpecs(n) ==
    {q \in [1..n -> [key : 1..n, ns : {<<>>, <<"other.ns">>}]] :
        \A k \in 1..n : q[k].key = k}
GleElements(texts) ==
    {[type |-> "EOO", str |-> ""], [type |-> "jstNULL", str |-> ""]}
        \cup {[type |-> "String", str |-> t] : t \in texts}
Gles ==
    {g \in [errmsg : GleElements({"", "insert failed"}),
            err : GleElements({"", "E11000"})] :
        g.errmsg.type # "jstNULL" /\ g.err.type # "EOO"}

\* fixSpec: a spec without a string ns is given the namespace
fixSpec(ns, original) ==
    IF original.ns # <<>> THEN original ELSE [original EXCEPT !.ns = <<ns>>]

\* e.type() == String && e.String().size() > 0
NonEmptyString(e) == e.type = "String" /\ e.str # ""

\* the result built after the loop
NewResult(a) ==
    [note |-> "downgraded", errmsg |-> a.newErrmsg,
     eachIndex |-> a.individualResults, ok |-> IF a.ok THEN 1 ELSE 0]

DowngradeInit ==
    /\ env = [DefaultEnv("createIndexes") EXCEPT !.sharded = TRUE]
    /\ pc = "handler"
    /\ mode = "scatter"
    /\ attempt = 1
    /\ refreshes = 0
    /\ shardIds = {}
    /\ todo = <<>>
    /\ calls = <<>>
    /\ inflight = {}
    /\ resp = NoResp
    /\ skipped = {}
    /\ folded = <<>>
    /\ seen = <<>>
    /\ ok = "pending"
    /\ err = ""
    /\ md5 = EmptyMd5
    /\ \E m \in ErrorMessages : \E isArray \in BOOLEAN :
       \E n \in 0..MaxIndexes : \E specs \in IndexSpecs(n) :
        acc = [kind |-> "downgrade", errmsg |-> m, isArray |-> isArray,
               indexes |-> specs, sent |-> <<>>, individualResults |-> <<>>,
               ok |-> TRUE, newErrmsg |-> <<>>, out |-> NoOut]

\* the handler up to the loop: without "no such cmd" in the message, or with
\* indexes that is no array, the original result is returned; an empty array
\* leaves nothing to insert
SpecialErrorHandler ==
    /\ pc = "handler"
    /\ acc.kind = "downgrade"
    /\ IF ~Contains(acc.errmsg, NoSuchCmd) \/ ~acc.isArray
       THEN /\ acc' = [acc EXCEPT !.out = [kind |-> "originalResult"]]
            /\ pc' = "done"
            /\ ok' = "false"
       ELSE IF acc.indexes = <<>>
       THEN /\ acc' = [acc EXCEPT !.out = NewResult(acc)]
            /\ pc' = "done"
            /\ ok' = "true"
       ELSE /\ pc' = "legacy"
            /\ UNCHANGED <<acc, ok>>
    /\ UNCHANGED CollStatsRest

\* what one turn of the loop leaves: the spec is sent, its gle is recorded,
\* and a non-empty errmsg or err clears ok and becomes the errmsg
LegacyTurn(a, gle) ==
    LET spec == fixSpec("db.coll", a.indexes[Len(a.sent) + 1])
        e == IF NonEmptyString(gle.errmsg) THEN <<gle.errmsg.str>>
             ELSE IF NonEmptyString(gle.err) THEN <<gle.err.str>>
             ELSE <<>>
    IN [a EXCEPT !.sent = Append(@, spec),
                 !.individualResults = Append(@, [spec |-> spec, gle |-> gle]),
                 !.ok = e = <<>>,
                 !.newErrmsg = e]

\* mutant: the loop goes on after an index that failed
CreateIndexLegacy_NoBreak ==
    /\ pc = "legacy"
    /\ acc.kind = "downgrade"
    /\ \E gle \in Gles :
        LET a == [LegacyTurn(acc, gle) EXCEPT !.ok = acc.ok /\ @] IN
        IF Len(a.sent) = Len(a.indexes)
        THEN /\ acc' = [a EXCEPT !.out = NewResult(a)]
             /\ pc' = "done"
             /\ ok' = IF a.ok THEN "true" ELSE "false"
        ELSE /\ acc' = a
             /\ UNCHANGED <<pc, ok>>
    /\ UNCHANGED CollStatsRest

\* one turn of the loop, the legacy insert of the next spec and its gle; the
\* turn that breaks and the turn of the last spec go on to build the result
CreateIndexLegacy ==
    /\ pc = "legacy"
    /\ acc.kind = "downgrade"
    /\ \E gle \in Gles :
        LET a == LegacyTurn(acc, gle) IN
        IF ~a.ok \/ Len(a.sent) = Len(a.indexes)
        THEN /\ acc' = [a EXCEPT !.out = NewResult(a)]
             /\ pc' = "done"
             /\ ok' = IF a.ok THEN "true" ELSE "false"
        ELSE /\ acc' = a
             /\ UNCHANGED <<pc, ok>>
    /\ UNCHANGED CollStatsRest

DowngradeNext == SpecialErrorHandler \/ CreateIndexLegacy

DowngradeSpec == DowngradeInit /\ [][DowngradeNext]_vars

\* the gle of an attempted index carries a non-empty errmsg or err
GleFailed(k) ==
    \/ NonEmptyString(acc.individualResults[k].gle.errmsg)
    \/ NonEmptyString(acc.individualResults[k].gle.err)
Downgrades == Contains(acc.errmsg, NoSuchCmd) /\ acc.isArray

\* C40: the createIndexes downgrade attempts a legacy insert only when the
\* shard's error message contains "no such cmd" and indexes is an array; the
\* inserts follow the order of the indexes array, one for each index up to
\* and including the first whose gle carries a non-empty errmsg or err, and
\* none after it; the ok returned is 1 exactly when no attempted index
\* carried one
C40_DowngradeStopsAtFirstError ==
    acc.kind = "downgrade" =>
        /\ acc.sent # <<>> => Downgrades
        /\ Len(acc.sent) <= Len(acc.indexes)
        /\ Len(acc.individualResults) = Len(acc.sent)
        /\ \A k \in 1..Len(acc.sent) :
            /\ acc.sent[k].key = acc.indexes[k].key
            /\ k < Len(acc.sent) => ~GleFailed(k)
        /\ (pc = "done" /\ ~Downgrades) =>
                acc.sent = <<>> /\ acc.out.kind = "originalResult"
        /\ (pc = "done" /\ Downgrades) =>
            /\ acc.out.ok = 1 <=> \A k \in 1..Len(acc.sent) : ~GleFailed(k)
            /\ acc.out.ok = 1 <=> ok = "true"
            /\ Len(acc.sent) < Len(acc.indexes) => GleFailed(Len(acc.sent))
            /\ Len(acc.out.eachIndex) = Len(acc.sent)

\* three indexes: the first is created, the second's gle carries an err, the
\* third is never attempted
C40_Witness ==
    /\ pc = "done"
    /\ acc.kind = "downgrade"
    /\ Len(acc.indexes) = 3
    /\ Len(acc.sent) = 2
    /\ ~GleFailed(1)
    /\ acc.individualResults[2].gle.err = [type |-> "String", str |-> "E11000"]
    /\ acc.individualResults[2].gle.errmsg.type = "EOO"
    /\ acc.out.ok = 0
    /\ acc.out.errmsg = <<"E11000">>

\* every index was created
C40_WitnessAllCreated ==
    /\ pc = "done"
    /\ acc.kind = "downgrade"
    /\ Len(acc.sent) = 3
    /\ acc.out.ok = 1
    /\ ok = "true"

====
